---------------------------- MODULE Spec2Model ----------------------------
(***************************************************************************)
(* Model of the coordinate parser of the coordinate-distance-calculator    *)
(* (src/lib/geo.ts) as it is driven by the point A field of CoordinateTool *)
(* (src/components/CoordinateTool.tsx), and of the distance, unit,         *)
(* midpoint, bearing and circle functions of src/lib/geo.ts, each called   *)
(* on its own: args holds the arguments of the call, ret its result        *)
(* (<<>> until it returns) and frame the local state of a call in          *)
(* progress.  The provider detector (src/lib/coordinate-providers.ts) and  *)
(* the locale proxy (src/lib/seo.ts) are called the same way.  The tool    *)
(* opened from a query string, a paste into the point A field and the zoom *)
(* requests of the map (src/components/GlobeMapLibre.tsx) have a           *)
(* specification each, whose steps are the event handlers and effects.     *)
(*                                                                         *)
(* Text is a sequence of one-character strings.  The regular expressions   *)
(* of the source are kept as data (a sequence of items) and run by a       *)
(* backtracking matcher with the priorities of the JavaScript engine:      *)
(* leftmost start first, greedy quantifiers longest first, an optional     *)
(* group tried before it is skipped.                                       *)
(*                                                                         *)
(* Numbers are fixed point: a finite value is an integer count of          *)
(* 1/Scale degree (or unit).  Number() is exact on literals with at most   *)
(* four integer digits and three fraction digits; further fraction digits  *)
(* are cut, a longer finite literal is the symbolic value "big", and a     *)
(* literal of more than 309 integer digits is Infinity (a literal of 309   *)
(* digits is taken as finite, which holds below 1.797e308).  Arithmetic on *)
(* finite values is exact (no binary rounding).                            *)
(*                                                                         *)
(* The geodesy computes angles and sines in fixed point as well, to        *)
(* 1/Unity, so that two results are compared within the resolution of      *)
(* that arithmetic; quantities of the source that are below it and not     *)
(* zero (the sine of toRad(180), the cosine of toRad(90)) are carried by   *)
(* their sign.  The unit conversions are computed in a binary floating     *)
(* point of few bits, with rounding, subnormals and overflow.              *)
(***************************************************************************)
EXTENDS Integers, Sequences, FiniteSets, TLC

VARIABLES mode, projection, selectedAlgorithms, pointAInput, detectedProviderA,
          pointAParsed, typed, lonArg, lonOut, args, ret, frame

vars == <<mode, projection, selectedAlgorithms, pointAInput, detectedProviderA,
          pointAParsed, typed, lonArg, lonOut, args, ret, frame>>

(***************************************************************************)
(* Characters                                                              *)
(***************************************************************************)
Digit == {"0", "1", "2", "3", "4", "5", "6", "7", "8", "9"}

LowerSeq == <<"a", "b", "c", "d", "e", "f", "g", "h", "i", "j", "k", "l", "m",
              "n", "o", "p", "q", "r", "s", "t", "u", "v", "w", "x", "y", "z">>

UpperSeq == <<"A", "B", "C", "D", "E", "F", "G", "H", "I", "J", "K", "L", "M",
              "N", "O", "P", "Q", "R", "S", "T", "U", "V", "W", "X", "Y", "Z">>

Lower == {LowerSeq[i] : i \in DOMAIN LowerSeq}

Upper == {UpperSeq[i] : i \in DOMAIN UpperSeq}

Punct == {" ", ",", ".", "-", "+", ":", ";", "=", "@", "/", "?", "&", "#", "'", "\"", "*"}

\* "*" stands for the degree sign, a non-ASCII character that is neither a
\* digit, a letter nor white space.
Alphabet == Digit \cup Lower \cup Upper \cup Punct

\* \s restricted to the alphabet
Space == {" "}

NonDigit == Alphabet \ Digit

DigitVal == [c \in Digit |-> CASE c = "0" -> 0 [] c = "1" -> 1 [] c = "2" -> 2 [] c = "3" -> 3
                               [] c = "4" -> 4 [] c = "5" -> 5 [] c = "6" -> 6 [] c = "7" -> 7
                               [] c = "8" -> 8 [] c = "9" -> 9]

ToUpperChar(c) ==
    IF c \in Lower THEN UpperSeq[CHOOSE i \in DOMAIN LowerSeq : LowerSeq[i] = c] ELSE c

ToLowerChar(c) ==
    IF c \in Upper THEN LowerSeq[CHOOSE i \in DOMAIN UpperSeq : UpperSeq[i] = c] ELSE c

toUpperCase(text) == [i \in DOMAIN text |-> ToUpperChar(text[i])]

RECURSIVE TrimStart(_)
TrimStart(text) ==
    IF text # <<>> /\ Head(text) \in Space THEN TrimStart(Tail(text)) ELSE text

RECURSIVE TrimEnd(_)
TrimEnd(text) ==
    IF text # <<>> /\ text[Len(text)] \in Space
    THEN TrimEnd(SubSeq(text, 1, Len(text) - 1))
    ELSE text

\* a call that forgets to trim
noTrim(text) == text

\* String.prototype.trim
trim(text) == TrimEnd(TrimStart(text))

(***************************************************************************)
(* Regular expressions: a sequence of items                                *)
(*   Rep(S, lo, hi)  lo..hi characters of the class S, greedy; hi = 0 is   *)
(*                   no upper limit                                        *)
(*   Opt(body)       (?:body)?                                             *)
(*   Cap(n, body)    capturing group n                                     *)
(***************************************************************************)
Rep(S, lo, hi) == [t |-> "rep", s |-> S, min |-> lo, max |-> hi]

One(S) == Rep(S, 1, 1)

Plus(S) == Rep(S, 1, 0)

Star(S) == Rep(S, 0, 0)

Opt(body) == [t |-> "opt", body |-> body]

Cap(n, body) == [t |-> "cap", n |-> n, body |-> body]

CapEnd(n, from) == [t |-> "end", n |-> n, from |-> from]

\* a literal under the i flag
LitI(text) == [i \in DOMAIN text |-> One({ToLowerChar(text[i]), ToUpperChar(text[i])})]

NoCaps == [i \in 1..8 |-> <<0, 0>>]

NoMatch == [ok |-> FALSE, from |-> 0, end |-> 0, caps |-> NoCaps]

RECURSIVE RunEnd(_, _, _, _)
\* the end of the run of class characters that starts at pos, at most limit
\* (a long run is walked a block at a time)
RunEnd(text, pos, S, limit) ==
    IF pos + 32 <= limit /\ pos + 31 <= Len(text)
       /\ \A i \in pos..(pos + 31) : text[i] \in S
    THEN RunEnd(text, pos + 32, S, limit)
    ELSE IF pos < limit /\ pos <= Len(text) /\ text[pos] \in S
    THEN RunEnd(text, pos + 1, S, limit)
    ELSE pos

RECURSIVE MatchAt(_, _, _, _, _)
RECURSIVE TryLen(_, _, _, _, _, _)

\* the first match, in priority order, of items at pos (from is the start
\* of the whole match)
MatchAt(text, items, from, pos, caps) ==
    IF items = <<>>
    THEN [ok |-> TRUE, from |-> from, end |-> pos, caps |-> caps]
    ELSE LET it == Head(items)
             rest == Tail(items)
         IN  CASE it.t = "rep" ->
                    LET hi == RunEnd(text, pos, it.s,
                                     IF it.max = 0 THEN Len(text) + 1 ELSE pos + it.max)
                    IN  TryLen(text, rest, from, caps, hi, pos + it.min)
               [] it.t = "opt" ->
                    LET r == MatchAt(text, it.body \o rest, from, pos, caps)
                    IN  IF r.ok THEN r ELSE MatchAt(text, rest, from, pos, caps)
               [] it.t = "cap" ->
                    MatchAt(text, it.body \o <<CapEnd(it.n, pos)>> \o rest, from, pos, caps)
               [] it.t = "end" ->
                    MatchAt(text, rest, from, pos,
                            [caps EXCEPT ![it.n] = <<it.from, pos - 1>>])

\* greedy: the longest run first, then one character less
TryLen(text, rest, from, caps, e, lo) ==
    IF e < lo
    THEN NoMatch
    ELSE LET r == MatchAt(text, rest, from, e, caps)
         IN  IF r.ok THEN r ELSE TryLen(text, rest, from, caps, e - 1, lo)

\* the first match that starts at p
MatchFrom(text, items, p) == MatchAt(text, items, p, p, NoCaps)

RECURSIVE SearchFrom(_, _, _)
RECURSIVE SearchBlock(_, _, _, _)

\* the match m at the start p if there is one, or else the search of the
\* starts after p
MatchOrNext(text, items, p, last, m) ==
    IF m.ok THEN m ELSE SearchBlock(text, items, p + 1, last)

\* the match at the leftmost start among p..last
SearchBlock(text, items, p, last) ==
    IF p > last \/ p > Len(text) + 1 THEN NoMatch
    ELSE MatchOrNext(text, items, p, last, MatchFrom(text, items, p))

\* the match of the block if there is one, or else the search of the text
\* after the block
BlockOrNext(text, items, lo, m) ==
    IF m.ok THEN m ELSE SearchFrom(text, items, lo + 16)

\* String.prototype.match without the g flag, searching from position lo:
\* the match at the leftmost start (the starts are tried a block at a time)
SearchFrom(text, items, lo) ==
    IF lo > Len(text) + 1 THEN NoMatch
    ELSE BlockOrNext(text, items, lo, SearchBlock(text, items, lo, lo + 15))

RECURSIVE CanMatch(_, _)
\* a necessary condition of a match, checked before the search: every item
\* that must take a character finds a character of its class in the text
CanMatch(text, items) ==
    \A i \in DOMAIN items :
        CASE items[i].t = "rep" ->
                 items[i].min = 0 \/ \E j \in DOMAIN text : text[j] \in items[i].s
          [] items[i].t = "cap" -> CanMatch(text, items[i].body)
          [] OTHER -> TRUE

\* String.prototype.match without the g flag
Search(text, items) ==
    IF CanMatch(text, items) THEN SearchFrom(text, items, 1) ELSE NoMatch

Defined(m, n) == m.caps[n][1] > 0

\* the text of capturing group n
Group(text, m, n) ==
    IF Defined(m, n) THEN SubSeq(text, m.caps[n][1], m.caps[n][2]) ELSE <<>>


(***************************************************************************)
(* Numbers                                                                 *)
(***************************************************************************)
\* fixed-point units per degree: tenths of an arc second, thousandths of a
\* degree
Scale == 3600 * 10

Fin(v) == [k |-> "fin", v |-> v]

\* a finite double too large for the fixed-point range (v is its sign)
Big(sgn) == [k |-> "big", v |-> sgn]

Inf(sgn) == [k |-> "inf", v |-> sgn]

NaN == [k |-> "nan", v |-> 0]

\* a decimal literal with more significant integer digits than this is
\* beyond Number.MAX_VALUE (1.79e308) and converts to Infinity
MaxFiniteDigits == 309

\* Number(lit) for a literal -?\d+(?:\.\d+)?
Number(lit) ==
    LET sgn == IF lit[1] = "-" THEN -1 ELSE 1
        body == IF lit[1] = "-" THEN Tail(lit) ELSE lit
        dots == {i \in DOMAIN body : body[i] = "."}
        intLen == IF dots = {} THEN Len(body) ELSE (CHOOSE i \in dots : TRUE) - 1
        nz == RunEnd(body, 1, {"0"}, intLen + 1)
        sig == intLen - nz + 1
        D(i) == IF i >= nz THEN DigitVal[body[i]] ELSE 0
        F(j) == IF dots # {} /\ intLen + 1 + j <= Len(body)
                THEN DigitVal[body[intLen + 1 + j]] ELSE 0
        int == D(intLen) + 10 * D(intLen - 1) + 100 * D(intLen - 2) + 1000 * D(intLen - 3)
        frac == (100 * F(1) + 10 * F(2) + F(3)) * (Scale \div 1000)
    IN  IF sig > MaxFiniteDigits THEN Inf(sgn)
        ELSE IF sig > 4 THEN Big(sgn)
        ELSE Fin(sgn * (int * Scale + frac))

isFinite(x) == x.k \in {"fin", "big"}

isNaN(x) == x.k = "nan"

\* x >= d and x <= d for a whole number of degrees d within the fixed range
Geq(x, d) ==
    CASE x.k = "fin" -> x.v >= d * Scale
      [] x.k \in {"big", "inf"} -> x.v > 0
      [] x.k = "nan" -> FALSE

Leq(x, d) ==
    CASE x.k = "fin" -> x.v <= d * Scale
      [] x.k \in {"big", "inf"} -> x.v < 0
      [] x.k = "nan" -> FALSE

Abs(n) == IF n < 0 THEN -n ELSE n

\* the % of JavaScript: the result has the sign of the dividend
JsRem(a, b) == IF a >= 0 THEN a % b ELSE -((-a) % b)

(***************************************************************************)
(* src/lib/geo.ts: the parser                                              *)
(***************************************************************************)
\* the shift of 540 written as 180
normalizeLonNoShift(lon) ==
    LET normalized == CASE lon.k = "fin" ->
                              Fin(JsRem(lon.v + 180 * Scale, 360 * Scale) - 180 * Scale)
                        [] lon.k \in {"inf", "nan"} -> NaN
    IN  IF isNaN(normalized) THEN lon ELSE normalized

\* the longitude returned as it came
normalizeLonIdentity(lon) == lon

normalizeLon(lon) ==
    LET normalized == CASE lon.k = "fin" ->
                              Fin(JsRem(lon.v + 540 * Scale, 360 * Scale) - 180 * Scale)
                        [] lon.k \in {"inf", "nan"} -> NaN
    IN  IF isNaN(normalized) THEN lon ELSE normalized

\* a literal of 310 digits, beyond the range of a double
HugeLiteral == [i \in 1..(MaxFiniteDigits + 1) |-> "1"]

\* -?\d+(?:\.\d+)? as capturing group n
NumRe(n) == Cap(n, <<Opt(<<One({"-"})>>), Plus(Digit), Opt(<<One({"."}), Plus(Digit)>>)>>)

\* /@(-?\d+(?:\.\d+)?),(-?\d+(?:\.\d+)?)/i
atPatternRe == <<One({"@"}), NumRe(1), One({","}), NumRe(2)>>

\* /(-?\d+(?:\.\d+)?)\s*[, ]\s*(-?\d+(?:\.\d+)?)/
decimalPairRe == <<NumRe(1), Star(Space), One({",", " "}), Star(Space), NumRe(2)>>

\* /lat(?:itude)?\s*[:=]\s*(-?\d+(?:\.\d+)?)\s*[,;\s]+lon(?:gitude)?\s*[:=]\s*(-?\d+(?:\.\d+)?)/i
labelPatternRe ==
    LitI(<<"l", "a", "t">>)
    \o <<Opt(LitI(<<"i", "t", "u", "d", "e">>)), Star(Space), One({":", "="}), Star(Space),
         NumRe(1), Star(Space), Plus({",", ";"} \cup Space)>>
    \o LitI(<<"l", "o", "n">>)
    \o <<Opt(LitI(<<"g", "i", "t", "u", "d", "e">>)), Star(Space), One({":", "="}), Star(Space),
         NumRe(2)>>

\* (\d{1,3})\D+(\d{1,2})?\D*(\d{1,2}(?:\.\d+)?)?\D*([h]) with groups n..n+3
DmsGroupRe(n, hemi) ==
    <<Cap(n, <<Rep(Digit, 1, 3)>>), Plus(NonDigit),
      Opt(<<Cap(n + 1, <<Rep(Digit, 1, 2)>>)>>), Star(NonDigit),
      Opt(<<Cap(n + 2, <<Rep(Digit, 1, 2), Opt(<<One({"."}), Plus(Digit)>>)>>)>>),
      Star(NonDigit), Cap(n + 3, <<One(hemi)>>)>>

NS == {"N", "S", "n", "s"}

EW == {"E", "W", "e", "w"}

\* [^\dA-Z]+ under the i flag
DmsGapRe == <<Plus(Alphabet \ (Digit \cup Upper \cup Lower))>>

latLonRe == DmsGroupRe(1, NS) \o DmsGapRe \o DmsGroupRe(5, EW)

lonLatRe == DmsGroupRe(1, EW) \o DmsGapRe \o DmsGroupRe(5, NS)

\* /-?\d+(?:\.\d+)?/g
flatNumberRe == <<NumRe(1)>>


(***************************************************************************)
(* new URL(raw) and URLSearchParams.get, restricted to the alphabet: the   *)
(* scheme, the authority of a special scheme (host and port), the query    *)
(* between the first "?" and the first "#", and the form-urlencoded pairs  *)
(* of the query ("+" decodes to a space; the alphabet has no "%").         *)
(***************************************************************************)
SchemeChar == Lower \cup Upper \cup Digit \cup {"+", "-", "."}

SpecialSchemes == {<<"h", "t", "t", "p">>, <<"h", "t", "t", "p", "s">>, <<"f", "t", "p">>,
                   <<"w", "s">>, <<"w", "s", "s">>}

RECURSIVE SplitOn(_, _)
\* String.prototype.split on one character
SplitOn(text, sep) ==
    LET e == RunEnd(text, 1, Alphabet \ {sep}, Len(text) + 1)
    IN  IF e > Len(text)
        THEN <<text>>
        ELSE <<SubSeq(text, 1, e - 1)>> \o SplitOn(SubSeq(text, e + 1, Len(text)), sep)

\* the host of a special scheme: not empty, no forbidden code point, and if
\* its last label is a number, an IPv4 address of numbers
HostOk(host) ==
    LET labels == SplitOn(host, ".")
        IsNum(l) == l # <<>> /\ \A i \in DOMAIN l : l[i] \in Digit
    IN  /\ host # <<>>
        /\ \A i \in DOMAIN host : host[i] \notin {" ", "#", "/", ":", "?", "@"}
        /\ IsNum(labels[Len(labels)]) =>
              Len(labels) <= 4 /\ \A i \in DOMAIN labels : IsNum(labels[i])

UrlFailure == [ok |-> FALSE, query |-> <<>>]

\* the text from position lo up to the first character of stops
UpTo(text, lo, stops) == RunEnd(text, lo, Alphabet \ stops, Len(text) + 1)

\* the host and port state: hostport is the authority after its last "@",
\* h the position of its first ":"
UrlHostPort(raw, special, slashed, authEnd, hostport, h) ==
    LET host == SubSeq(hostport, 1, h - 1)
        port == SubSeq(hostport, h + 1, Len(hostport))
    IN  IF special /\ ~HostOk(host) THEN UrlFailure
        ELSE IF ~special /\ slashed
                /\ \E i \in DOMAIN host : host[i] \in {" ", "#", "/", ":", "?", "@"}
             THEN UrlFailure
        ELSE IF \E i \in DOMAIN port : port[i] \notin Digit THEN UrlFailure
        ELSE LET hash == UpTo(raw, authEnd, {"#"})
                 qmark == UpTo(raw, authEnd, {"?", "#"})
             IN  [ok |-> TRUE,
                  query |-> IF qmark < hash THEN SubSeq(raw, qmark + 1, hash - 1) ELSE <<>>]

\* the authority state: the authority runs from a to authEnd
UrlAuthority(raw, special, slashed, authEnd, authority) ==
    LET ats == {i \in DOMAIN authority : authority[i] = "@"}
        hostport == IF ats = {} THEN authority
                    ELSE SubSeq(authority, (CHOOSE i \in ats : \A j \in ats : j <= i) + 1,
                                Len(authority))
    IN  UrlHostPort(raw, special, slashed, authEnd, hostport, UpTo(hostport, 1, {":"}))

\* after the scheme, which ends at e: a special scheme skips every slash,
\* another scheme has an authority only after "//"
UrlAfterScheme(raw, e, special, slashed) ==
    LET a == IF special THEN RunEnd(raw, e + 1, {"/"}, Len(raw) + 1)
             ELSE IF slashed THEN e + 3 ELSE e + 1
        authEnd == IF special \/ slashed THEN UpTo(raw, a, {"/", "?", "#"}) ELSE a
    IN  UrlAuthority(raw, special, slashed, authEnd, SubSeq(raw, a, authEnd - 1))

\* the scheme state: e is the end of the run of scheme characters
UrlScheme(raw, e) ==
    IF raw = <<>> \/ raw[1] \notin Lower \cup Upper \/ e > Len(raw) \/ raw[e] # ":"
    THEN UrlFailure
    ELSE UrlAfterScheme(raw, e,
                        [i \in 1..(e - 1) |-> ToLowerChar(raw[i])] \in SpecialSchemes,
                        e + 2 <= Len(raw) /\ raw[e + 1] = "/" /\ raw[e + 2] = "/")

\* new URL(raw): ok = FALSE stands for the TypeError it throws
UrlParse(raw) == UrlScheme(raw, RunEnd(raw, 1, SchemeChar, Len(raw) + 1))

NoParam == [some |-> FALSE, value |-> <<>>]

\* url.searchParams.get(name): the value of the first pair of that name
searchParamsGet(url, name) ==
    LET pairs == SelectSeq(SplitOn(url.query, "&"), LAMBDA p : p # <<>>)
        Plus2Space(t) == [i \in DOMAIN t |-> IF t[i] = "+" THEN " " ELSE t[i]]
        eq(p) == RunEnd(p, 1, Alphabet \ {"="}, Len(p) + 1)
        named == SelectSeq(pairs, LAMBDA p : Plus2Space(SubSeq(p, 1, eq(p) - 1)) = name)
    IN  IF named = <<>>
        THEN NoParam
        ELSE [some |-> TRUE,
              value |-> Plus2Space(SubSeq(named[1], eq(named[1]) + 1, Len(named[1])))]

NoPair == [thrown |-> FALSE, some |-> FALSE, lat |-> NaN, lon |-> NaN]

Pair(lat, lon) == [thrown |-> FALSE, some |-> TRUE, lat |-> lat, lon |-> lon]

\* [Number(m[1]), Number(m[2])] of a match m, null without a match
NumberPair(text, m) ==
    IF m.ok THEN Pair(Number(Group(text, m, 1)), Number(Group(text, m, 2))) ELSE NoPair

\* the value of q, or of ll when there is no q, matched as a pair
queryValuePair(q) ==
    IF q.some /\ q.value # <<>> THEN NumberPair(q.value, Search(q.value, decimalPairRe))
    ELSE NoPair

\* lines 84-90: the pair of the query of maybeUrl
queryPair(maybeUrl, qParam) ==
    queryValuePair(IF qParam.some THEN qParam ELSE searchParamsGet(maybeUrl, <<"l", "l">>))

\* the rest of the function once the @ pattern is settled
urlPairAfter(raw, atPair, maybeUrl) ==
    IF atPair.some THEN atPair
    ELSE IF ~maybeUrl.ok THEN NoPair
    ELSE queryPair(maybeUrl, searchParamsGet(maybeUrl, <<"q">>))

\* new URL(raw) outside the try block: its TypeError leaves the function
urlPairAfterNoCatch(raw, atPair, maybeUrl) ==
    IF atPair.some THEN atPair
    ELSE IF ~maybeUrl.ok THEN [NoPair EXCEPT !.thrown = TRUE]
    ELSE queryPair(maybeUrl, searchParamsGet(maybeUrl, <<"q">>))

parseCoordinatePairFromUrlNoCatch(raw) ==
    urlPairAfterNoCatch(raw, NumberPair(raw, Search(raw, atPatternRe)), UrlParse(raw))

parseCoordinatePairFromUrl(raw) ==
    urlPairAfter(raw, NumberPair(raw, Search(raw, atPatternRe)), UrlParse(raw))

\* a capture handed on as an optional string argument
Arg(text, m, n) == [def |-> Defined(m, n), s |-> Group(text, m, n)]

\* the letter W forgotten
dmsToDecimalSouthOnly(degrees, minutes, seconds, hemi) ==
    LET d == Number(degrees.s).v
        deg == IF d < 0 THEN -d ELSE d
        min == IF minutes.def /\ minutes.s # <<>> THEN Number(minutes.s).v ELSE 0
        sec == IF seconds.def /\ seconds.s # <<>> THEN Number(seconds.s).v ELSE 0
        sign == IF hemi.def /\ hemi.s # <<>> /\ toUpperCase(hemi.s) \in {<<"S">>}
                THEN -1 ELSE 1
    IN  Fin(sign * (deg + min \div 60 + sec \div 3600))

\* minutes and seconds taken as hundredths
dmsToDecimalCentesimal(degrees, minutes, seconds, hemi) ==
    LET d == Number(degrees.s).v
        deg == IF d < 0 THEN -d ELSE d
        min == IF minutes.def /\ minutes.s # <<>> THEN Number(minutes.s).v ELSE 0
        sec == IF seconds.def /\ seconds.s # <<>> THEN Number(seconds.s).v ELSE 0
        sign == IF hemi.def /\ hemi.s # <<>> /\ toUpperCase(hemi.s) \in {<<"S">>, <<"W">>}
                THEN -1 ELSE 1
    IN  Fin(sign * (deg + min \div 100 + sec \div 10000))

\* min / 60 and sec / 3600 are exact down to a tenth of an arc second
dmsToDecimal(degrees, minutes, seconds, hemi) ==
    LET d == Number(degrees.s).v
        deg == IF d < 0 THEN -d ELSE d
        min == IF minutes.def /\ minutes.s # <<>> THEN Number(minutes.s).v ELSE 0
        sec == IF seconds.def /\ seconds.s # <<>> THEN Number(seconds.s).v ELSE 0
        sign == IF hemi.def /\ hemi.s # <<>> /\ toUpperCase(hemi.s) \in {<<"S">>, <<"W">>}
                THEN -1 ELSE 1
    IN  Fin(sign * (deg + min \div 60 + sec \div 3600))

\* [lat, lon] of a match m whose groups a..a+3 are the latitude and b..b+3
\* the longitude, null without a match
DmsPair(text, m, a, b) ==
    IF m.ok
    THEN Pair(dmsToDecimal(Arg(text, m, a), Arg(text, m, a + 1), Arg(text, m, a + 2),
                           Arg(text, m, a + 3)),
              dmsToDecimal(Arg(text, m, b), Arg(text, m, b + 1), Arg(text, m, b + 2),
                           Arg(text, m, b + 3)))
    ELSE NoPair

\* the second pattern is tried when the first does not match
dmsEither(latLon, lonLat) == IF latLon.some THEN latLon ELSE lonLat

dmsOfText(text) ==
    dmsEither(DmsPair(text, Search(text, latLonRe), 1, 5),
              DmsPair(text, Search(text, lonLatRe), 5, 1))

parseDmsPair(raw) == dmsOfText(toUpperCase(raw))

\* the check of the longitude left out (of a longitude within the
\* fixed-point range)
isValidLatOnly(lat, lon) ==
    /\ isFinite(lat) /\ lon.k = "fin"
    /\ Geq(lat, -90) /\ Leq(lat, 90)

\* the check of the latitude left out
isValidLonOnly(lat, lon) ==
    /\ isFinite(lat) /\ isFinite(lon)
    /\ Geq(lon, -180) /\ Leq(lon, 180)

isValidLatLon(lat, lon) ==
    /\ isFinite(lat) /\ isFinite(lon)
    /\ Geq(lat, -90) /\ Leq(lat, 90) /\ Geq(lon, -180) /\ Leq(lon, 180)

\* The results carry, beside the fields of ParseResult, a trace of the call:
\* the recognizers it evaluated, in order (ran), the pair the last of them
\* extracted, as written (pair), and whether the call threw.
Failure(error, ran, pair) ==
    [thrown |-> FALSE, ok |-> FALSE, error |-> error, ran |-> ran, pair |-> pair]

Success(value, ran, pair) ==
    [thrown |-> FALSE, ok |-> TRUE, value |-> value, ran |-> ran, pair |-> pair]

Thrown(ran) ==
    [thrown |-> TRUE, ok |-> FALSE, error |-> "TypeError", ran |-> ran, pair |-> NoPair]

\* the body shared by the four branches: validate, then normalize
Decide(pair, ran) ==
    IF ~isValidLatLon(pair.lat, pair.lon)
    THEN Failure("out_of_range", ran, pair)
    ELSE Success([lat |-> pair.lat, lon |-> normalizeLon(pair.lon)], ran, pair)

\* lines 158-163
labelPair(input) == NumberPair(input, Search(input, labelPatternRe))

\* lines 170-173
decimalPair(input) == NumberPair(input, Search(input, decimalPairRe))

\* lines 170-180: the bare decimal pair, the last recognizer
fromDecimalPair(input, decimal) ==
    IF decimal.some THEN Decide(decimal, <<"url", "dms", "label", "decimal">>)
    ELSE Failure("invalid_format", <<"url", "dms", "label", "decimal">>, NoPair)

\* lines 158-168: the labeled pair, then the next recognizer
fromLabelPattern(input, labelled) ==
    IF labelled.some THEN Decide(labelled, <<"url", "dms", "label">>)
    ELSE fromDecimalPair(input, decimalPair(input))

\* the labeled pair tried after the decimal pair
fromLabelPatternLast(input, labelled) ==
    IF labelled.some THEN Decide(labelled, <<"url", "dms", "decimal", "label">>)
    ELSE Failure("invalid_format", <<"url", "dms", "decimal", "label">>, NoPair)

\* the decimal pair tried before the labeled pair
fromDecimalPairFirst(input, decimal) ==
    IF decimal.some THEN Decide(decimal, <<"url", "dms", "decimal">>)
    ELSE fromLabelPatternLast(input, labelPair(input))

\* the DMS pair followed by the decimal pair, then the labeled pair
fromDmsPairDecimalNext(input, dmsPair) ==
    IF dmsPair.some THEN Decide(dmsPair, <<"url", "dms">>)
    ELSE fromDecimalPairFirst(input, decimalPair(input))

\* a DMS pair that fails validation passed over for the next recognizer
fromDmsPairFallThrough(input, dmsPair) ==
    IF dmsPair.some /\ isValidLatLon(dmsPair.lat, dmsPair.lon)
    THEN Decide(dmsPair, <<"url", "dms">>)
    ELSE fromLabelPattern(input, labelPair(input))

\* lines 149-156: the DMS pair, then the next recognizer
fromDmsPair(input, dmsPair) ==
    IF dmsPair.some THEN Decide(dmsPair, <<"url", "dms">>)
    ELSE fromLabelPattern(input, labelPair(input))

\* lines 140-147: the pair embedded in a URL, then the next recognizer
fromUrlPair(input, urlPair) ==
    IF urlPair.thrown THEN Thrown(<<"url">>)
    ELSE IF urlPair.some THEN Decide(urlPair, <<"url">>)
    ELSE fromDmsPair(input, parseDmsPair(input))

\* lines 136-140
fromInput(input) ==
    IF input = <<>> THEN Failure("empty", <<>>, NoPair)
    ELSE fromUrlPair(input, parseCoordinatePairFromUrl(input))

parseGlobeCoordinate(raw) == fromInput(trim(raw))

RECURSIVE MatchAll(_, _, _)
\* String.prototype.match with the g flag: every match, left to right
MatchAll(text, items, lo) ==
    LET m == SearchFrom(text, items, lo)
    IN  IF ~m.ok THEN <<>>
        ELSE <<SubSeq(text, m.from, m.end - 1)>> \o MatchAll(text, items, m.end)

\* lines 193-198: x, y and z = 0 by default
fromValues(x, y, z) ==
    IF ~(isFinite(x) /\ isFinite(y) /\ isFinite(z))
    THEN Failure("invalid_number", <<"numbers">>, NoPair)
    ELSE Success([x |-> x, y |-> y, z |-> z], <<"numbers">>, NoPair)

\* fewer than two numbers reported as a number that is not finite
fromNumbersInvalidNumber(values) ==
    IF Len(values) < 2 THEN Failure("invalid_number", <<"numbers">>, NoPair)
    ELSE fromValues(values[1], values[2], IF Len(values) >= 3 THEN values[3] ELSE Fin(0))

\* lines 189-193
fromNumbers(values) ==
    IF Len(values) < 2 THEN Failure("invalid_format", <<"numbers">>, NoPair)
    ELSE fromValues(values[1], values[2], IF Len(values) >= 3 THEN values[3] ELSE Fin(0))

\* the texts of the matches mapped by Number
mapNumber(found) == [i \in DOMAIN found |-> Number(found[i])]

parseFlatCoordinate(raw) == fromNumbers(mapNumber(MatchAll(trim(raw), flatNumberRe, 1)))


(***************************************************************************)
(* src/components/CoordinateTool.tsx: the point A field                    *)
(***************************************************************************)
\* the pieces of text a user types or pastes at the end of the field
Pieces ==
    {<<"h", "t", "t", "p", "s", ":", "/", "/">>,
     <<"a", ".", "c", "o", "/", "?", "q", "=", "1", "+", "2">>,
     <<"a", ".", "c", "o", "/", "?", "l", "l", "=", "3", ",", "4">>,
     <<"@", "9", "5", ",", "0">>,
     <<"1", " ", "N", " ", "2", " ", "E">>,
     <<"l", "a", "t", ":", "1", ",", "l", "o", "n", ":", "1", "8">>,
     <<"5", "0", ",", "1", "8", "0">>,
     <<"4", "2">>,
     <<" ">>,
     HugeLiteral \o <<",", "5">>}

\* "37.4219999, -122.0840575"
DefaultPointA == <<"3", "7", ".", "4", "2", "1", "9", "9", "9", "9", ",", " ", "-", "1", "2", "2", ".", "0", "8", "4", "0", "5", "7", "5">>

\* how many pieces the field holds; the default text fills it
MaxTyped == 2

globeAlgorithms == <<"haversine", "vincenty", "equirect">>

flatAlgorithms == <<"euclidean2d", "euclidean3d", "manhattan2d">>

Includes(list, x) == \E i \in DOMAIN list : list[i] = x

\* the memo pointAParsed, recomputed when mode or pointAInput changes
Parsed(m, input) ==
    IF m = "globe" THEN parseGlobeCoordinate(input) ELSE parseFlatCoordinate(input)

\* the algorithms kept by the effect of a change of mode
Kept(previous, allowed) ==
    IF SelectSeq(previous, LAMBDA algorithm : Includes(allowed, algorithm)) # <<>>
    THEN SelectSeq(previous, LAMBDA algorithm : Includes(allowed, algorithm))
    ELSE <<allowed[1]>>

\* the tool opened without a query string
Init ==
    /\ mode = "globe"
    /\ projection = "map"
    /\ selectedAlgorithms = <<globeAlgorithms[1]>>
    /\ pointAInput = DefaultPointA
    /\ detectedProviderA = "null"
    /\ pointAParsed = Parsed("globe", DefaultPointA)
    /\ typed = MaxTyped
    /\ lonArg = NaN
    /\ lonOut = NaN
    /\ args = <<>>
    /\ ret = <<>>
    /\ frame = <<>>

\* onChange of the point A field, the user having typed piece at its end
TypePointA(piece) ==
    /\ typed < MaxTyped
    /\ pointAInput' = pointAInput \o piece
    /\ detectedProviderA' = "null"
    /\ pointAParsed' = Parsed(mode, pointAInput')
    /\ typed' = typed + 1
    /\ UNCHANGED <<mode, projection, selectedAlgorithms, lonArg, lonOut, args, ret, frame>>

\* onChange of the point A field, the user having deleted its text
ClearPointA ==
    /\ pointAInput' = <<>>
    /\ detectedProviderA' = "null"
    /\ pointAParsed' = Parsed(mode, <<>>)
    /\ typed' = 0
    /\ UNCHANGED <<mode, projection, selectedAlgorithms, lonArg, lonOut, args, ret, frame>>

\* onClick of the other mode button, with the effect of the change of mode
\* (ClickMode and ModeEffect below take the two renders one at a time)
SetMode(m) ==
    /\ m # mode
    /\ mode' = m
    /\ selectedAlgorithms' =
           Kept(selectedAlgorithms, IF m = "globe" THEN globeAlgorithms ELSE flatAlgorithms)
    /\ projection' = IF m = "flat" THEN "map" ELSE projection
    /\ pointAParsed' = Parsed(m, pointAInput)
    /\ UNCHANGED <<pointAInput, detectedProviderA, typed, lonArg, lonOut, args, ret, frame>>

Next ==
    \/ \E piece \in Pieces : TypePointA(piece)
    \/ ClearPointA
    \/ \E m \in {"globe", "flat"} : SetMode(m)

Spec == Init /\ [][Next]_vars

(***************************************************************************)
(* normalizeLon on its own: every quarter of a degree up to MaxLon         *)
(* degrees either side of zero, and the values that are not finite         *)
(***************************************************************************)
MaxLon == 750

LonInputs ==
    {Fin(q * (Scale \div 4)) : q \in (-4 * MaxLon)..(4 * MaxLon)} \cup {Inf(1), Inf(-1), NaN}

\* a longitude in hand, no call made yet
InitNormalize ==
    /\ mode = "globe"
    /\ projection = "map"
    /\ selectedAlgorithms = <<globeAlgorithms[1]>>
    /\ pointAInput = DefaultPointA
    /\ detectedProviderA = "null"
    /\ pointAParsed = Parsed("globe", DefaultPointA)
    /\ typed = MaxTyped
    /\ lonArg = NaN
    /\ lonOut \in LonInputs
    /\ args = <<>>
    /\ ret = <<>>
    /\ frame = <<>>

\* a call normalizeLon(lon) on the longitude in hand
CallNormalizeLon ==
    /\ lonArg' = lonOut
    /\ lonOut' = normalizeLon(lonOut)
    /\ UNCHANGED <<mode, projection, selectedAlgorithms, pointAInput, detectedProviderA,
                   pointAParsed, typed, args, ret, frame>>

NextNormalize == CallNormalizeLon

SpecNormalize == InitNormalize /\ [][NextNormalize]_vars

(***************************************************************************)
(* The functions of src/lib/geo.ts called on their own: args holds the     *)
(* arguments of a call, ret its return value (<<>> before the call).  The  *)
(* tool itself stays as it was opened.                                     *)
(***************************************************************************)
tool == <<mode, projection, selectedAlgorithms, pointAInput, detectedProviderA,
          pointAParsed, typed, lonArg, lonOut>>

ToolAtRest ==
    /\ mode = "globe"
    /\ projection = "map"
    /\ selectedAlgorithms = <<globeAlgorithms[1]>>
    /\ pointAInput = DefaultPointA
    /\ detectedProviderA = "null"
    /\ pointAParsed = Parsed("globe", DefaultPointA)
    /\ typed = MaxTyped
    /\ lonArg = NaN
    /\ lonOut = NaN

(***************************************************************************)
(* parseDmsPair on texts in degree-minute-second notation                  *)
(***************************************************************************)
DigitChar(d) == CHOOSE c \in Digit : DigitVal[c] = d

\* the decimal digits of a natural number below 1000
Digits(n) ==
    IF n < 10 THEN <<DigitChar(n)>>
    ELSE IF n < 100 THEN <<DigitChar(n \div 10), DigitChar(n % 10)>>
    ELSE <<DigitChar(n \div 100), DigitChar((n \div 10) % 10), DigitChar(n % 10)>>

\* An angle as a person writes it: an optional minus sign, whole degrees,
\* whole minutes (-1: not written), tenths of a second (-1: not written)
\* and a hemisphere letter, as in -37*25'19.2"N.
AngleText(w) ==
    (IF w.minus THEN <<"-">> ELSE <<>>)
    \o Digits(w.deg) \o <<"*">>
    \o (IF w.min >= 0 THEN Digits(w.min) \o <<"'">> ELSE <<>>)
    \o (IF w.sec >= 0
        THEN Digits(w.sec \div 10)
             \o (IF w.sec % 10 # 0 THEN <<".", DigitChar(w.sec % 10)>> ELSE <<>>)
             \o <<"\"">>
        ELSE <<>>)
    \o <<w.hemi>>

DmsText(w) == AngleText(w[1]) \o <<" ">> \o AngleText(w[2])

\* minutes and seconds as they are written: seconds only after minutes
WrittenParts == {<<-1, -1>>, <<25, -1>>, <<5, 20>>, <<25, 192>>}

WrittenAngles(degs, parts, hemis) ==
    {[minus |-> m, deg |-> d, min |-> p[1], sec |-> p[2], hemi |-> h] :
        m \in BOOLEAN, d \in degs, p \in parts, h \in hemis}

LatAngles == WrittenAngles({0, 37}, WrittenParts, {"N", "S", "s"})

LonAngles == WrittenAngles({122}, {<<-1, -1>>, <<5, 20>>}, {"E", "W"})

\* latitude first, or longitude first
DmsInputs == (LatAngles \X LonAngles) \cup (LonAngles \X LatAngles)

InitDms ==
    /\ ToolAtRest
    /\ args \in DmsInputs
    /\ ret = <<>>
    /\ frame = <<>>

\* a call parseDmsPair(raw) on the text of the written angles
CallParseDmsPair ==
    /\ ret = <<>>
    /\ ret' = parseDmsPair(DmsText(args))
    /\ UNCHANGED <<tool, args, frame>>

NextDms == CallParseDmsPair

SpecDms == InitDms /\ [][NextDms]_vars

(***************************************************************************)
(* parseGlobeCoordinate on the notations of one point, two texts at a time *)
(***************************************************************************)
\* "37.4220, -122.0840"
TableDecimal == <<"3", "7", ".", "4", "2", "2", "0", ",", " ", "-", "1", "2", "2", ".", "0", "8", "4", "0">>

\* "lat: 37.4220, lon: -122.0840"
TableLabeled == <<"l", "a", "t", ":", " ", "3", "7", ".", "4", "2", "2", "0", ",", " ", "l", "o", "n", ":", " ", "-", "1", "2", "2", ".", "0", "8", "4", "0">>

\* 37*25'19"N 122*05'02"W
TableDms == <<"3", "7", "*", "2", "5", "'", "1", "9", "\"", "N", " ", "1", "2", "2", "*", "0", "5", "'", "0", "2", "\"", "W">>

\* "@37.4220,-122.0840"
TableAt == <<"@", "3", "7", ".", "4", "2", "2", "0", ",", "-", "1", "2", "2", ".", "0", "8", "4", "0">>

\* "?q=37.4220,-122.0840"
TableQuery == <<"?", "q", "=", "3", "7", ".", "4", "2", "2", "0", ",", "-", "1", "2", "2", ".", "0", "8", "4", "0">>

\* URLs that carry the @ fragment in their path
TableAtUrls ==
    {prefix \o TableAt \o suffix :
        prefix \in {<<"h", "t", "t", "p", "s", ":", "/", "/", "a", ".", "c", "o", "/", "m", "a", "p", "s", "/">>,
                    <<"h", "t", "t", "p", "s", ":", "/", "/", "a", ".", "c", "o", "/", "m", "a", "p", "s", "/", "p", "l", "a", "c", "e", "/", "x", "/">>,
                    <<"a", ".", "c", "o", "/">>},
        suffix \in {<<>>, <<",", "1", "5", "z">>}}

\* absolute URLs that carry the q parameter
TableQueryUrls ==
    {scheme \o host \o TableQuery \o suffix :
        scheme \in {<<"h", "t", "t", "p", "s", ":", "/", "/">>, <<"h", "t", "t", "p", ":", "/", "/">>},
        host \in {<<"a", ".", "c", "o", "/">>, <<"m", "a", "p", "s", ".", "a", ".", "c", "o", "/", "m", "a", "p", "s">>},
        suffix \in {<<>>, <<"&", "z", "=", "1", "5">>}}

TableInputs == {TableDecimal, TableLabeled, TableDms} \cup TableAtUrls \cup TableQueryUrls

InitTable ==
    /\ ToolAtRest
    /\ args \in [a : TableInputs, b : TableInputs]
    /\ ret = <<>>
    /\ frame = <<>>

\* the calls parseGlobeCoordinate(a) and parseGlobeCoordinate(b)
CallParseGlobeCoordinate ==
    /\ ret = <<>>
    /\ ret' = [a |-> parseGlobeCoordinate(args.a), b |-> parseGlobeCoordinate(args.b)]
    /\ UNCHANGED <<tool, args, frame>>

NextTable == CallParseGlobeCoordinate

SpecTable == InitTable /\ [][NextTable]_vars

(***************************************************************************)
(* parseCoordinatePairFromUrl on URLs built from a q and an ll parameter   *)
(***************************************************************************)
\* the text before the query: two absolute URLs and a text that is no URL
UrlBases == {<<"h", "t", "t", "p", "s", ":", "/", "/", "a", ".", "c", "o", "/", "m", "a", "p", "s">>, <<"h", "t", "t", "p", ":", "/", "/", "m", "a", "p", "s", ".", "a", ".", "c", "o", "/">>, <<"a", ".", "c", "o", "/", "m", "a", "p", "s">>}

\* values of q: absent, empty, place names, pairs
UrlQValues ==
    {NoParam, [some |-> TRUE, value |-> <<>>]}
    \cup {[some |-> TRUE, value |-> v] : v \in {<<"P", "a", "r", "i", "s">>, <<"R", "u", "e", "+", "1", "2">>, <<"1", ".", "5", ",", "-", "2">>, <<"3", "+", "4">>}}

\* values of ll: absent, empty, a word, pairs
UrlLlValues ==
    {NoParam, [some |-> TRUE, value |-> <<>>]}
    \cup {[some |-> TRUE, value |-> v] : v \in {<<"x">>, <<"5", ",", "6">>, <<"-", "7", ".", "2", "5", ",", "8">>}}

\* name=value, nothing for a parameter that is absent
UrlPair(name, p) == IF p.some THEN <<name \o <<"=">> \o p.value>> ELSE <<>>

RECURSIVE JoinOn(_, _)
\* Array.prototype.join on one character
JoinOn(items, sep) ==
    IF items = <<>> THEN <<>>
    ELSE IF Len(items) = 1 THEN items[1]
    ELSE items[1] \o <<sep>> \o JoinOn(Tail(items), sep)

\* the URL text with its parameters in the order given, after a z parameter
UrlWith(base, q, ll, qFirst) ==
    LET qs == UrlPair(<<"q">>, q)
        lls == UrlPair(<<"l", "l">>, ll)
    IN  base \o <<"?">>
        \o JoinOn(<<<<"z", "=", "9">>>> \o (IF qFirst THEN qs \o lls ELSE lls \o qs), "&")

UrlCalls ==
    {[raw |-> UrlWith(base, q, ll, qFirst), q |-> q, ll |-> ll] :
        base \in UrlBases, q \in UrlQValues, ll \in UrlLlValues, qFirst \in BOOLEAN}

InitUrl ==
    /\ ToolAtRest
    /\ args \in UrlCalls
    /\ ret = <<>>
    /\ frame = <<>>

\* the call parseCoordinatePairFromUrl(raw)
CallParseCoordinatePairFromUrl ==
    /\ ret = <<>>
    /\ ret' = [pair |-> parseCoordinatePairFromUrl(args.raw)]
    /\ UNCHANGED <<tool, args, frame>>

NextUrl == CallParseCoordinatePairFromUrl

SpecUrl == InitUrl /\ [][NextUrl]_vars

(***************************************************************************)
(* Arithmetic of the distance and geometry functions.  A coordinate is a   *)
(* whole number of 1/Scale degree (or planar unit), as the parser leaves   *)
(* it; an angle in radians, a sine, a cosine and every other intermediate  *)
(* value is a whole number of 1/Unity; a distance on the globe is a whole    *)
(* number of metres.  Products and quotients are cut towards zero.  The    *)
(* functions of Math are computed to that resolution: sine and cosine by   *)
(* their series after reduction to a quarter turn, the arc tangent by its  *)
(* series after reduction to an eighth of a turn, the square root by       *)
(* bisection.  sin(0) = 0, cos(0) = 1, sqrt(0) = 0 and atan2(0, 1) = 0     *)
(* are exact, as they are in the floating point of the source.             *)
(***************************************************************************)
Unity == 1000 * 1000

Pi == 3141593

HalfPi == Pi \div 2

QuarterPi == Pi \div 4

TwoPi == 2 * Pi

\* a product is built from digits of this size to stay within the integers
Base == 8 * 8

QRCombine(t, q, d) == <<q + t \div d, t % d>>

QRNext(h, low, d) == QRCombine(h[2] * Base + low, h[1] * Base, d)

\* quotient and remainder of r * b by d, for 0 <= r < d <= 2^24 and b >= 0
RECURSIVE QR(_, _, _)
QR(r, b, d) ==
    IF b < Base THEN QRCombine(r * b, 0, d)
    ELSE QRNext(QR(r, b \div Base, d), r * (b % Base), d)

MulDivNat(a, b, d) == (a \div d) * b + QR(a % d, b, d)[1]

\* a * b / d cut towards zero, for 0 < d <= 2^24
MulDiv(a, b, d) ==
    IF (a < 0) = (b < 0)
    THEN MulDivNat(Abs(a), Abs(b), d)
    ELSE -MulDivNat(Abs(a), Abs(b), d)

\* x * y and x / y of two values in units of 1/Unity
Mul(x, y) == MulDiv(x, y, Unity)

Div(x, y) == IF y < 0 THEN -MulDiv(x, Unity, -y) ELSE MulDiv(x, Unity, y)

Sq(x) == Mul(x, x)

\* r * r <= v * scale, without the product
SqLeqBy(h, v) == h[1] < v \/ (h[1] = v /\ h[2] = 0)

SqLeq(r, v, scale) ==
    /\ (r \div scale) * r <= v
    /\ SqLeqBy(QR(r % scale, r, scale), v - (r \div scale) * r)

\* the largest r in lo..hi with r * r <= v * scale
RECURSIVE SqrtBetween(_, _, _, _)
SqrtBetween(v, lo, hi, scale) ==
    IF lo >= hi THEN lo
    ELSE IF SqLeq((lo + hi + 1) \div 2, v, scale)
         THEN SqrtBetween(v, (lo + hi + 1) \div 2, hi, scale)
         ELSE SqrtBetween(v, lo, (lo + hi + 1) \div 2 - 1, scale)

\* the square root of a value in units of 1/scale; top is above the root of
\* the largest value in range
SqrtScaled(v, scale, top) ==
    IF v <= 0 THEN 0
    ELSE SqrtBetween(v, 0, IF v > top THEN top ELSE IF v > scale THEN v ELSE scale, scale)

\* Math.sqrt
Sqrt(v) == SqrtScaled(v, Unity, 46341 * 1000)

\* an angle brought into -Pi .. Pi
Reduce(x) ==
    IF JsRem(x, TwoPi) > Pi THEN JsRem(x, TwoPi) - TwoPi
    ELSE IF JsRem(x, TwoPi) < -Pi THEN JsRem(x, TwoPi) + TwoPi
    ELSE JsRem(x, TwoPi)

\* x (1 - x^2/6 (1 - x^2/20 (1 - x^2/42 (1 - x^2/72 (1 - x^2/110)))))
SinSeries(x, x2) ==
    Mul(x, Unity - Mul(x2, Unity - Mul(x2, Unity - Mul(x2, Unity - Mul(x2, Unity - x2 \div 110)
                                                      \div 72) \div 42) \div 20) \div 6)

\* 1 - x^2/2 (1 - x^2/12 (1 - x^2/30 (1 - x^2/56 (1 - x^2/90 (1 - x^2/132)))))
CosSeries(x2) ==
    Unity - Mul(x2, Unity - Mul(x2, Unity - Mul(x2, Unity - Mul(x2, Unity - Mul(x2, Unity - x2 \div 132)
                                                      \div 90) \div 56) \div 30) \div 12) \div 2

SinReduced(y) ==
    IF y > HalfPi THEN SinSeries(Pi - y, Sq(Pi - y))
    ELSE IF y < -HalfPi THEN SinSeries(-Pi - y, Sq(-Pi - y))
    ELSE SinSeries(y, Sq(y))

\* Math.sin
Sin(x) == SinReduced(Reduce(x))

CosReduced(y) == IF y > HalfPi THEN -CosSeries(Sq(Pi - y)) ELSE CosSeries(Sq(y))

\* Math.cos
Cos(x) == CosReduced(Abs(Reduce(x)))

\* z (1 - z^2 (1/3 - z^2 (1/5 - z^2 (1/7 - z^2 (1/9 - z^2 (1/11 - z^2/13))))))
AtanSeries(z, z2) ==
    Mul(z, Unity - Mul(z2, Unity \div 3 - Mul(z2, Unity \div 5 - Mul(z2, Unity \div 7
              - Mul(z2, Unity \div 9 - Mul(z2, Unity \div 11 - z2 \div 13))))))

AtanSmall(z) == AtanSeries(z, Sq(z))

\* the arc tangent of t in 0 .. Unity; beyond tan(Pi/8) by atan t = Pi/4 + atan((t-1)/(t+1))
AtanUnit(t) ==
    IF t > 414214
    THEN QuarterPi + AtanSmall(Div(t - Unity, t + Unity))
    ELSE AtanSmall(t)

\* the angle of the point (ax, ay) of the first quadrant
AtanQuadrant(ay, ax) ==
    IF ay <= ax THEN AtanUnit(Div(ay, ax)) ELSE HalfPi - AtanUnit(Div(ax, ay))

\* Math.atan2(y, x), zero taken as positive zero
Atan2(y, x) ==
    IF y = 0 THEN (IF x >= 0 THEN 0 ELSE Pi)
    ELSE IF x = 0 THEN (IF y > 0 THEN HalfPi ELSE -HalfPi)
    ELSE IF x > 0 THEN (IF y > 0 THEN AtanQuadrant(y, x) ELSE -AtanQuadrant(-y, x))
    ELSE IF y > 0 THEN Pi - AtanQuadrant(y, -x) ELSE -(Pi - AtanQuadrant(-y, -x))

\* x / 2
Half(x) == IF x < 0 THEN -((-x) \div 2) ELSE x \div 2

(***************************************************************************)
(* src/lib/geo.ts: the distance engine                                     *)
(***************************************************************************)
\* in decimetres
EARTH_RADIUS_M == 63710088

\* in metres
WGS84_A == 6378137

\* in metres and in decimetres
WGS84_B == 6356752

WGS84_B_DM == 63567523

\* 1 / 298.257223563
WGS84_F == (1000 * Unity + 149128) \div 298257

\* degrees in units of 1/Scale to radians in units of 1/Unity, and back
toRad(value) == MulDiv(value, Pi, 180 * Scale)

toDeg(value) == MulDiv(value, 180 * Scale, Pi)

\* an arc in radians on the sphere (or ellipsoid axis) of the radius, in metres
Metres(arc, radiusDm) == MulDiv(arc, radiusDm, 10 * Unity)

HaversineH(sinLat, sinLon, cosLat1, cosLat2) ==
    Sq(sinLat) + Mul(Mul(Mul(cosLat1, cosLat2), sinLon), sinLon)

HaversineC(h) == 2 * Atan2(Sqrt(h), Sqrt(Unity - h))

\* the latitude of b taken for the difference of the latitudes
haversineDistanceMetersLatOfB(a, b) ==
    Metres(HaversineC(HaversineH(Sin(Half(toRad(b.lat))),
                                 Sin(Half(toRad(b.lon - a.lon))),
                                 Cos(toRad(a.lat)), Cos(toRad(b.lat)))),
           EARTH_RADIUS_M)

haversineDistanceMeters(a, b) ==
    Metres(HaversineC(HaversineH(Sin(Half(toRad(b.lat - a.lat))),
                                 Sin(Half(toRad(b.lon - a.lon))),
                                 Cos(toRad(a.lat)), Cos(toRad(b.lat)))),
           EARTH_RADIUS_M)

\* Math.atan((1 - WGS84_F) * Math.tan(lat)), the tangent as sine over cosine
ReducedLatitude(lat) == Atan2(Mul(Unity - WGS84_F, Sin(lat)), Cos(lat))

\* the variables of vincentyDistanceMeters at the head of its loop
\* the cap of the loop on its iterations
IterationCap == 200

VincentyStart(a, b) ==
    [pc |-> "loop", result |-> 0,
     L |-> toRad(b.lon - a.lon),
     sinU1 |-> Sin(ReducedLatitude(toRad(a.lat))),
     cosU1 |-> Cos(ReducedLatitude(toRad(a.lat))),
     sinU2 |-> Sin(ReducedLatitude(toRad(b.lat))),
     cosU2 |-> Cos(ReducedLatitude(toRad(b.lat))),
     lambda |-> toRad(b.lon - a.lon), lambdaP |-> 0, iteration |-> 0,
     sinSigma |-> 0, cosSigma |-> 0, sigma |-> 0, sinAlpha |-> 0, cosSqAlpha |-> 0,
     cos2SigmaM |-> 0]

\* 1e-12 radian is below one unit of 1/Unity: two values differ by more
\* when they differ at all
VincentyLooping(v) ==
    v.pc = "loop" /\ Abs(v.lambda - v.lambdaP) > 0 /\ v.iteration < IterationCap

VincentyLambda(v, sinSigma, cosSigma, sigma, sinAlpha, cosSqAlpha, cos2SigmaM, C) ==
    [v EXCEPT !.sinSigma = sinSigma, !.cosSigma = cosSigma, !.sigma = sigma,
              !.sinAlpha = sinAlpha, !.cosSqAlpha = cosSqAlpha, !.cos2SigmaM = cos2SigmaM,
              !.lambdaP = v.lambda,
              !.lambda = v.L + Mul(Mul(Mul(Unity - C, WGS84_F), sinAlpha),
                                   sigma + Mul(Mul(C, sinSigma),
                                               cos2SigmaM + Mul(Mul(C, cosSigma),
                                                                -Unity + 2 * Sq(cos2SigmaM)))),
              !.iteration = v.iteration + 1]

VincentyC(v, sinSigma, cosSigma, sigma, sinAlpha, cosSqAlpha, cos2SigmaM) ==
    VincentyLambda(v, sinSigma, cosSigma, sigma, sinAlpha, cosSqAlpha, cos2SigmaM,
                   Mul(Mul(WGS84_F \div 16, cosSqAlpha),
                       4 * Unity + Mul(WGS84_F, 4 * Unity - 3 * cosSqAlpha)))

VincentyCos2SigmaM(v, sinSigma, cosSigma, sinAlpha, cosSqAlpha) ==
    VincentyC(v, sinSigma, cosSigma, Atan2(sinSigma, cosSigma), sinAlpha, cosSqAlpha,
              IF cosSqAlpha = 0 THEN 0
              ELSE cosSigma - Div(2 * Mul(v.sinU1, v.sinU2), cosSqAlpha))

VincentyAlpha(v, sinSigma, cosSigma, sinAlpha) ==
    VincentyCos2SigmaM(v, sinSigma, cosSigma, sinAlpha, Unity - Sq(sinAlpha))

VincentySigma(v, sinLambda, cosLambda, sinSigma) ==
    IF sinSigma = 0
    THEN [v EXCEPT !.pc = "done", !.result = 0, !.sinSigma = 0]
    ELSE VincentyAlpha(v, sinSigma,
                       Mul(v.sinU1, v.sinU2) + Mul(Mul(v.cosU1, v.cosU2), cosLambda),
                       Div(Mul(Mul(v.cosU1, v.cosU2), sinLambda), sinSigma))

VincentyTerms(v, sinLambda, cosLambda) ==
    VincentySigma(v, sinLambda, cosLambda,
                  Sqrt(Sq(Mul(v.cosU2, sinLambda))
                       + Sq(Mul(v.cosU1, v.sinU2) - Mul(Mul(v.sinU1, v.cosU2), cosLambda))))

\* one pass through the body of the loop (lines 237-270)
VincentyIteration(v) == VincentyTerms(v, Sin(v.lambda), Cos(v.lambda))

\* (a^2 - b^2) / b^2
SecondEccentricitySq ==
    MulDiv(MulDiv(Unity, WGS84_A - WGS84_B, WGS84_B), WGS84_A + WGS84_B, WGS84_B)

\* 4096/16384 and 256/1024 are taken out of the brackets to stay in range
VincentyA(uSq) ==
    Unity + uSq \div 4
    + Mul(Sq(uSq), -768 * Unity + Mul(uSq, 320 * Unity - 175 * uSq)) \div 16384

VincentyB(uSq) ==
    uSq \div 4 + Mul(Sq(uSq), -128 * Unity + Mul(uSq, 74 * Unity - 47 * uSq)) \div 1024

VincentyDeltaSigma(v, B) ==
    Mul(Mul(B, v.sinSigma),
        v.cos2SigmaM
        + Mul(B \div 4,
              Mul(v.cosSigma, -Unity + 2 * Sq(v.cos2SigmaM))
              - Mul(Mul(Mul(B \div 6, v.cos2SigmaM), -3 * Unity + 4 * Sq(v.sinSigma)),
                    -3 * Unity + 4 * Sq(v.cos2SigmaM))))

VincentyEllipsoidal(v, uSq) ==
    Metres(Mul(VincentyA(uSq), v.sigma - VincentyDeltaSigma(v, VincentyB(uSq))), WGS84_B_DM)

\* lines 273-291: what is returned once the loop is left
VincentyReturn(v, a, b) ==
    [v EXCEPT !.pc = "done",
              !.result = IF v.iteration >= IterationCap
                         THEN haversineDistanceMeters(a, b)
                         ELSE VincentyEllipsoidal(v, Mul(v.cosSqAlpha, SecondEccentricitySq))]

\* one test of the while condition, and the body when it holds
VincentyStep(v) == IF VincentyLooping(v) THEN VincentyIteration(v) ELSE v

\* n tests of the while condition; the condition fails from the 200th
\* iteration on, so that IterationCap tests run the loop to its end
RECURSIVE VincentyLoop(_, _)
\* the tests that remain after a return from within the body are none
VincentyLoopRest(v, n) == IF v.pc = "done" THEN v ELSE VincentyLoop(v, n)

VincentyLoop(v, n) ==
    IF n = 0 THEN v
    ELSE IF n = 1 THEN VincentyStep(v)
    ELSE VincentyLoopRest(VincentyLoop(v, n \div 2), n - n \div 2)

VincentyAfterLoop(v, a, b) == IF v.pc = "done" THEN v ELSE VincentyReturn(v, a, b)

VincentyRun(v, a, b) == VincentyAfterLoop(VincentyLoop(v, IterationCap), a, b)

vincentyDistanceMeters(a, b) == VincentyRun(VincentyStart(a, b), a, b).result

equirectangularDistanceMeters(a, b) ==
    Metres(Sqrt(Sq(Mul(toRad(b.lon - a.lon), Cos(toRad(Half(a.lat + b.lat)))))
                + Sq(toRad(b.lat - a.lat))),
           EARTH_RADIUS_M)

\* Math.hypot of planar differences in units of 1/Scale
Hypot(dx, dy, dz) ==
    SqrtScaled(MulDiv(dx, dx, Scale) + MulDiv(dy, dy, Scale) + MulDiv(dz, dz, Scale),
               Scale, 46341 * 189)

euclidean2DUnits(a, b) == Hypot(b.x - a.x, b.y - a.y, 0)

euclidean3DUnits(a, b) == Hypot(b.x - a.x, b.y - a.y, b.z - a.z)

manhattan2DUnits(a, b) == Abs(b.x - a.x) + Abs(b.y - a.y)

\* The value returned, with the name of the function that computed it.
Computed(by, value) == [thrown |-> FALSE, by |-> by, value |-> value]

calculateGlobeDistanceMeters(algorithm, a, b) ==
    IF algorithm = "haversine" THEN Computed("haversine", haversineDistanceMeters(a, b))
    ELSE IF algorithm = "vincenty" THEN Computed("vincenty", vincentyDistanceMeters(a, b))
    ELSE Computed("equirect", equirectangularDistanceMeters(a, b))

calculateFlatDistanceUnits(algorithm, a, b) ==
    IF algorithm = "euclidean2d" THEN Computed("euclidean2d", euclidean2DUnits(a, b))
    ELSE IF algorithm = "euclidean3d" THEN Computed("euclidean3d", euclidean3DUnits(a, b))
    ELSE Computed("manhattan2d", manhattan2DUnits(a, b))

(***************************************************************************)
(* The distance engine called on a pair of points, in both directions      *)
(***************************************************************************)
Degrees(lat, lon) == [lat |-> lat * (Scale \div 4), lon |-> lon * (Scale \div 4)]

\* valid geographic points, in quarters of a degree: the poles, the equator,
\* both ends of the longitude range, and points nearly opposite each other;
\* the last two are a pair at the edge of convergence of the Vincenty loop
GlobePoints ==
    {Degrees(0, 0), Degrees(0, 40), Degrees(40, 0), Degrees(360, 0), Degrees(-360, 200),
     Degrees(150, -488), Degrees(-163, 605), Degrees(-135, -720), Degrees(12, 718),
     Degrees(2, 719), Degrees(206, -12),
     [lat |-> 50 * Scale, lon |-> 10 * Scale + 11],
     [lat |-> -50 * Scale - 9000, lon |-> -170 * Scale + 21600]}

Units(x, y, z) == [x |-> x * (Scale \div 4), y |-> y * (Scale \div 4), z |-> z * (Scale \div 4)]

\* planar points, in quarters of a unit
FlatPoints ==
    {Units(0, 0, 0), Units(12, 16, 0), Units(12, 16, 48), Units(-6, 8, 28), Units(-1, -1, -1),
     Units(400, -300, 5)}

\* the identifiers a caller can pass, the parameter types being erased at run time
AlgorithmIds ==
    {globeAlgorithms[i] : i \in DOMAIN globeAlgorithms}
    \cup {flatAlgorithms[i] : i \in DOMAIN flatAlgorithms}

DistanceCalls ==
    [fn : {"calculateGlobeDistanceMeters"}, algorithm : AlgorithmIds,
     a : GlobePoints, b : GlobePoints]
    \cup [fn : {"calculateFlatDistanceUnits"}, algorithm : AlgorithmIds,
          a : FlatPoints, b : FlatPoints]

InitDistance ==
    /\ ToolAtRest
    /\ args \in DistanceCalls
    /\ ret = <<>>
    /\ frame = <<>>

\* the calls calculateGlobeDistanceMeters(algorithm, a, b) and (algorithm, b, a)
CallGlobeDistance ==
    /\ ret = <<>>
    /\ args.fn = "calculateGlobeDistanceMeters"
    /\ ret' = [ab |-> calculateGlobeDistanceMeters(args.algorithm, args.a, args.b),
               ba |-> calculateGlobeDistanceMeters(args.algorithm, args.b, args.a)]
    /\ UNCHANGED <<tool, args, frame>>

\* the calls calculateFlatDistanceUnits(algorithm, a, b) and (algorithm, b, a)
CallFlatDistance ==
    /\ ret = <<>>
    /\ args.fn = "calculateFlatDistanceUnits"
    /\ ret' = [ab |-> calculateFlatDistanceUnits(args.algorithm, args.a, args.b),
               ba |-> calculateFlatDistanceUnits(args.algorithm, args.b, args.a)]
    /\ UNCHANGED <<tool, args, frame>>

NextDistance == CallGlobeDistance \/ CallFlatDistance

SpecDistance == InitDistance /\ [][NextDistance]_vars

(***************************************************************************)
(* The loop of vincentyDistanceMeters, one iteration at a step.  What the   *)
(* loop tests of a pair of points is after how many iterations successive   *)
(* values of lambda come within 1e-12 of each other, and in which iteration *)
(* sinSigma is exactly 0; a call is described by these two numbers.  A pair *)
(* on one meridian has lambda = L = 0 = lambdaP, within 1e-12 before the    *)
(* first iteration; a nearly antipodal pair is not within 1e-12 after 200.  *)
(***************************************************************************)
\* convergesAt above the cap: not within 1e-12 after any of the 200 iterations;
\* vanishesAt 0: sinSigma is 0 in no iteration
VincentyCalls ==
    [fn : {"vincentyDistanceMeters"}, convergesAt : 0..(IterationCap + 1),
     vanishesAt : 0..2]

InitVincenty ==
    /\ ToolAtRest
    /\ args \in VincentyCalls
    /\ ret = <<>>
    /\ frame = <<>>

\* let lambda = L, lambdaP = 0, iteration = 0
EnterVincenty ==
    /\ frame = <<>>
    /\ frame' = [pc |-> "loop", iteration |-> 0]
    /\ UNCHANGED <<tool, args, ret>>

\* the loop without its cap
LoopingUncapped == frame.iteration < args.convergesAt

\* Math.abs(lambda - lambdaP) > 1e-12 && iteration < 200
Looping == frame.iteration < args.convergesAt /\ frame.iteration < IterationCap

\* one pass of the body: return 0 when sinSigma === 0, else iteration += 1
LoopIteration ==
    /\ frame # <<>>
    /\ frame.pc = "loop"
    /\ Looping
    /\ IF args.vanishesAt = frame.iteration + 1
       THEN frame' = [frame EXCEPT !.pc = "done"] /\ ret' = "zero"
       ELSE frame' = [frame EXCEPT !.iteration = frame.iteration + 1] /\ ret' = ret
    /\ UNCHANGED <<tool, args>>

\* after the loop: if (iteration >= 200) return haversineDistanceMeters(a, b);
\* otherwise the ellipsoidal distance
LoopExit ==
    /\ frame # <<>>
    /\ frame.pc = "loop"
    /\ ~Looping
    /\ frame' = [frame EXCEPT !.pc = "done"]
    /\ ret' = IF frame.iteration >= IterationCap THEN "haversine" ELSE "ellipsoidal"
    /\ UNCHANGED <<tool, args>>

NextVincenty == EnterVincenty \/ LoopIteration \/ LoopExit

SpecVincenty == InitVincenty /\ [][NextVincenty]_vars

\* the call is synchronous: once entered it runs, step after step, until it
\* returns
SpecVincentyFair == SpecVincenty /\ WF_vars(NextVincenty)

(***************************************************************************)
(* Binary floating point in miniature, for toMeters and fromMeters: the    *)
(* format of a double with MantissaBits significant bits in place of 53    *)
(* and Binades binades above the lowest in place of 2045.  A finite number *)
(* is Fin(n), n counted in units of the smallest subnormal, 1.0 being      *)
(* UnitsInOne of them; results are rounded to nearest, ties to even, and   *)
(* a result beyond the largest finite number is Infinity.                  *)
(***************************************************************************)
MantissaBits == 4

Binades == 15

RECURSIVE Pow2(_)
Pow2(j) == IF j = 0 THEN 1 ELSE 2 * Pow2(j - 1)

UnitsInOne == 8 * 8

\* the largest finite number (Number.MAX_VALUE)
MaxFloat == (Pow2(MantissaBits) - 1) * Pow2(Binades)

\* the smallest normal number
MinNormal == Pow2(MantissaBits - 1)

\* the finite numbers of the format
Floats ==
    {sgn * m * Pow2(j) : sgn \in {-1, 1}, m \in 0..(Pow2(MantissaBits) - 1), j \in 0..Binades}

\* the spacing of the numbers of the format around num / den
RECURSIVE Quantum(_, _, _)
Quantum(num, den, s) ==
    IF num < Pow2(MantissaBits) * s * den THEN s ELSE Quantum(num, den, 2 * s)

\* the whole number nearest to num / d, the even one of two equally near
NearestEven(num, d) ==
    IF 2 * (num % d) < d THEN num \div d
    ELSE IF 2 * (num % d) > d THEN num \div d + 1
    ELSE num \div d + ((num \div d) % 2)

Overflowing(n, sgn) == IF n > MaxFloat THEN Inf(sgn) ELSE Fin(sgn * n)

RoundAt(num, den, s, sgn) == Overflowing(s * NearestEven(num, den * s), sgn)

\* the number of the format that stands for the exact value num / den
FloatRound(num, den) ==
    IF num < 0 THEN RoundAt(-num, den, Quantum(-num, den, 1), -1)
    ELSE RoundAt(num, den, Quantum(num, den, 1), 1)

RECURSIVE Gcd(_, _)
Gcd(a, b) == IF b = 0 THEN a ELSE Gcd(b, a % b)

\* x * y and x / y for a finite non-zero y
FloatTimes(x, y, g) ==
    IF x.k = "inf" THEN Inf(x.v * (IF y.v < 0 THEN -1 ELSE 1))
    ELSE FloatRound(x.v * (y.v \div g), UnitsInOne \div g)

FloatMul(x, y) == FloatTimes(x, y, Gcd(Abs(y.v), UnitsInOne))

FloatOver(x, y, g) ==
    IF x.k = "inf" THEN Inf(x.v * (IF y.v < 0 THEN -1 ELSE 1))
    ELSE FloatRound(x.v * (UnitsInOne \div g) * (IF y.v < 0 THEN -1 ELSE 1), Abs(y.v) \div g)

FloatDiv(x, y) == FloatOver(x, y, Gcd(Abs(y.v), UnitsInOne))

(***************************************************************************)
(* src/lib/geo.ts: unit conversion                                         *)
(***************************************************************************)
OutputUnits == {"m", "km", "mi", "nmi", "ft", "blocks"}

\* the literals of the table, each the number of the format nearest to it
metersPerUnit(unit) ==
    CASE unit = "m" -> FloatRound(1 * UnitsInOne, 1)
      [] unit = "km" -> FloatRound(1000 * UnitsInOne, 1)
      [] unit = "mi" -> FloatRound(1609344 * UnitsInOne, 1000)
      [] unit = "nmi" -> FloatRound(1852 * UnitsInOne, 1)
      [] unit = "ft" -> FloatRound(3048 * UnitsInOne, 10000)
      [] unit = "blocks" -> FloatRound(1 * UnitsInOne, 1)

toMeters(value, unit) == FloatMul(value, metersPerUnit(unit))

\* the value multiplied by the factor once more
fromMetersTimes(value, unit) == FloatMul(value, metersPerUnit(unit))

fromMeters(value, unit) == FloatDiv(value, metersPerUnit(unit))

(***************************************************************************)
(* toMeters and fromMeters called one after the other on a finite value    *)
(***************************************************************************)
UnitCalls == [fn : {"toMeters"}, value : {Fin(n) : n \in Floats}, unit : OutputUnits]

InitUnits ==
    /\ ToolAtRest
    /\ args \in UnitCalls
    /\ ret = <<>>
    /\ frame = <<>>

\* fromMeters(toMeters(value, unit), unit)
CallToAndFromMeters ==
    /\ ret = <<>>
    /\ args.fn = "toMeters"
    /\ ret' = [meters |-> toMeters(args.value, args.unit),
               back |-> fromMeters(toMeters(args.value, args.unit), args.unit)]
    /\ UNCHANGED <<tool, args, frame>>

NextUnits == CallToAndFromMeters

SpecUnits == InitUnits /\ [][NextUnits]_vars

(***************************************************************************)
(* src/lib/geo.ts: the geodesic circle.  toRad(180) and toRad(360) are the *)
(* doubles next below pi and 2 pi, whose sines are 1.2e-16 and -2.4e-16,   *)
(* and the cosine of toRad(90) is 6.1e-17: not zero, and below the         *)
(* resolution of the fixed-point arithmetic.  Math.atan2 tells such a      *)
(* number from zero (atan2(-1e-32, 0) is -pi/2, atan2(0, 0) is 0), so the  *)
(* sign of the product that is its first argument is kept beside its       *)
(* value.                                                                  *)
(***************************************************************************)
SignOf(n) == IF n > 0 THEN 1 ELSE IF n < 0 THEN -1 ELSE 0

\* the sign of Math.sin(toRad(deg)) for 0 <= deg <= 360
SinSign(deg) ==
    IF Sin(toRad(deg)) # 0 THEN SignOf(Sin(toRad(deg)))
    ELSE IF deg = 180 * Scale THEN 1
    ELSE IF deg = 360 * Scale THEN -1
    ELSE 0

\* Math.atan2(y, x) for y of sign s
Atan2Signed(y, s, x) ==
    IF y # 0 \/ s = 0 THEN Atan2(y, x)
    ELSE IF x > 0 THEN 0
    ELSE IF x = 0 THEN s * HalfPi
    ELSE s * Pi

\* Math.asin
Asin(x) == Atan2(x, Sqrt(Unity - Sq(x)))

\* distanceMeters / EARTH_RADIUS_M, the radius in whole metres
DistanceRatio(distanceMeters) == MulDiv(distanceMeters, Unity, EARTH_RADIUS_M \div 10)

DestinationLat(lat1, distanceRatio, bearing) ==
    Asin(Mul(Sin(lat1), Cos(distanceRatio))
         + Mul(Mul(Cos(lat1), Sin(distanceRatio)), Cos(bearing)))

DestinationLon(lat1, lon1, distanceRatio, bearing, lat2, s) ==
    lon1 + Atan2Signed(Mul(Mul(Sin(bearing), Sin(distanceRatio)), Cos(lat1)), s,
                       Cos(distanceRatio) - Mul(Sin(lat1), Sin(lat2)))

DestinationAt(lat1, lon1, distanceRatio, bearing, s) ==
    [lat |-> toDeg(DestinationLat(lat1, distanceRatio, bearing)),
     lon |-> normalizeLon(Fin(toDeg(DestinationLon(lat1, lon1, distanceRatio, bearing,
                                                   DestinationLat(lat1, distanceRatio, bearing),
                                                   s)))).v]

\* the cosine of a valid latitude and the sine of distanceRatio are above
\* zero, the distance being above zero and below half the way round
destinationPoint(center, bearingDeg, distanceMeters) ==
    DestinationAt(toRad(center.lat), toRad(center.lon), DistanceRatio(distanceMeters),
                  toRad(bearingDeg), SinSign(bearingDeg) * SignOf(distanceMeters))

\* for (let i = 0; i <= steps; i += 1): the point at bearing (360 * i) / steps
buildGeodesicCircle(center, radiusMeters, steps) ==
    [n \in 1..(steps + 1) |->
        destinationPoint(center, MulDiv(360 * Scale, n - 1, steps), radiusMeters)]

(***************************************************************************)
(* buildGeodesicCircle called on a centre, a radius and a number of steps  *)
(***************************************************************************)
MaxSteps == 6

\* valid centres: both poles, the equator, both ends of the longitude range
CircleCenters ==
    {Degrees(0, 0), Degrees(360, 0), Degrees(-360, 0), Degrees(360, 150), Degrees(150, -488),
     Degrees(-163, 605), Degrees(0, -720), Degrees(320, -720), Degrees(320, 40)}

\* radii in metres, the last two reaching across the pole from latitude 80
CircleRadii == {1000, 250 * 1000, 2000 * 1000, 5000 * 1000}

CircleCalls ==
    [fn : {"buildGeodesicCircle"}, center : CircleCenters, radiusMeters : CircleRadii,
     steps : 1..MaxSteps]

InitCircle ==
    /\ ToolAtRest
    /\ args \in CircleCalls
    /\ ret = <<>>
    /\ frame = <<>>

CallBuildGeodesicCircle ==
    /\ ret = <<>>
    /\ args.fn = "buildGeodesicCircle"
    /\ ret' = buildGeodesicCircle(args.center, args.radiusMeters, args.steps)
    /\ UNCHANGED <<tool, args, frame>>

NextCircle == CallBuildGeodesicCircle

SpecCircle == InitCircle /\ [][NextCircle]_vars

(***************************************************************************)
(* src/lib/geo.ts: bearings and midpoints                                  *)
(*                                                                         *)
(* The doubles from 256 up to 512 lie 5.7e-14 apart and those near zero    *)
(* far closer, so that the sum of a small negative angle and 360 is        *)
(* rounded, and can be 360 itself.  The sum is modelled with that loss:    *)
(* it is rounded to a spacing wider than that of the angle, halved below   *)
(* 256 as that of the doubles is.                                          *)
(***************************************************************************)
SumSpacing(n) == IF n >= 256 * Scale THEN 4 ELSE 2

\* angle + 360, rounded to the nearest number of the spacing, to the even
\* one of two equally near
PlusTurn(angle) ==
    SumSpacing(angle + 360 * Scale)
        * NearestEven(angle + 360 * Scale, SumSpacing(angle + 360 * Scale))

\* the sign of Math.sin(toRad(deg)) for -360 <= deg <= 360
SinSignOdd(deg) == IF deg < 0 THEN -SinSign(-deg) ELSE SinSign(deg)

BearingY(lat2, dLon) == Mul(Sin(dLon), Cos(lat2))

BearingX(lat1, lat2, dLon) ==
    Mul(Cos(lat1), Sin(lat2)) - Mul(Mul(Sin(lat1), Cos(lat2)), Cos(dLon))

\* Math.atan2(y, x); y has the sign s of the sine of dLon, the cosine of a
\* valid latitude being above zero.  The cosine of the latitude of a pole is
\* 6.1e-17 for either pole: when both points are poles it is a common factor
\* of both arguments, which leaves the angle as it is
BearingAngle(lat1, lat2, dLon, s) ==
    IF Cos(lat1) = 0 /\ Cos(lat2) = 0
    THEN Atan2Signed(Sin(dLon), s, Sin(lat2) - Mul(Sin(lat1), Cos(dLon)))
    ELSE Atan2Signed(BearingY(lat2, dLon), s, BearingX(lat1, lat2, dLon))

\* the bearing without the % 360
initialBearingNoRem(lat1, lat2, dLon, s) ==
    PlusTurn(toDeg(BearingAngle(lat1, lat2, dLon, s)))

\* (toDeg(Math.atan2(y, x)) + 360) % 360
initialBearing(lat1, lat2, dLon, s) ==
    JsRem(PlusTurn(toDeg(BearingAngle(lat1, lat2, dLon, s))), 360 * Scale)

initialBearingDegrees(a, b) ==
    initialBearing(toRad(a.lat), toRad(b.lat), toRad(b.lon - a.lon),
                   SinSignOdd(b.lon - a.lon))

planarBearingDegrees(a, b) ==
    JsRem(PlusTurn(toDeg(Atan2(b.x - a.x, b.y - a.y))), 360 * Scale)

MidpointBx(lat2, dLon) == Mul(Cos(lat2), Cos(dLon))

MidpointBy(lat2, dLon) == Mul(Cos(lat2), Sin(dLon))

MidpointLat(lat1, lat2, dLon) ==
    Atan2(Sin(lat1) + Sin(lat2),
          Sqrt(Sq(Cos(lat1) + MidpointBx(lat2, dLon)) + Sq(MidpointBy(lat2, dLon))))

\* Math.atan2(by, Math.cos(lat1) + bx).  The cosine of the latitude of a
\* pole is 6.1e-17 for either pole: when both points are poles it is a
\* common factor of both arguments, which leaves the angle as it is
MidpointTurn(lat1, lat2, dLon, s) ==
    IF Cos(lat1) = 0 /\ Cos(lat2) = 0
    THEN Atan2Signed(Sin(dLon), s, Unity + Cos(dLon))
    ELSE Atan2Signed(MidpointBy(lat2, dLon), s, Cos(lat1) + MidpointBx(lat2, dLon))

MidpointAt(lat1, lon1, lat2, dLon, s) ==
    [lat |-> toDeg(MidpointLat(lat1, lat2, dLon)),
     lon |-> normalizeLon(Fin(toDeg(lon1 + MidpointTurn(lat1, lat2, dLon, s)))).v]

\* lon3 taken from the longitude of b
geographicMidpointLonOfB(a, b) ==
    MidpointAt(toRad(a.lat), toRad(b.lon), toRad(b.lat), toRad(b.lon - a.lon),
               SinSignOdd(b.lon - a.lon))

geographicMidpoint(a, b) ==
    MidpointAt(toRad(a.lat), toRad(a.lon), toRad(b.lat), toRad(b.lon - a.lon),
               SinSignOdd(b.lon - a.lon))

flatMidpoint(a, b) ==
    [x |-> Half(a.x + b.x), y |-> Half(a.y + b.y), z |-> Half(a.z + b.z)]

(***************************************************************************)
(* The bearing and the midpoint of a pair of points                        *)
(***************************************************************************)
\* valid geographic points: the poles, both ends of the longitude range, a
\* point a hair west of the meridian, points opposite each other, and pairs
\* whose midpoint lies on the meridian of 180
PairGlobePoints ==
    {Degrees(0, 0), Degrees(-160, 0), Degrees(-40, 0), [lat |-> 0, lon |-> -3],
     Degrees(360, 0), Degrees(360, 400), Degrees(-360, 400), Degrees(0, 720), Degrees(0, -720),
     Degrees(0, 680), Degrees(0, -680), Degrees(32, 412), Degrees(52, -328),
     Degrees(150, -488), Degrees(-150, 232)}

\* planar points: those of the distance calls, a point due south of the
\* origin and a point a hair left of the Y axis
PairFlatPoints ==
    FlatPoints \cup {Units(0, -4, 0), [x |-> -1, y |-> 20 * Scale, z |-> 0],
                     [x |-> 5, y |-> 7, z |-> -3]}

PairCalls ==
    [fn : {"initialBearingDegrees", "geographicMidpoint"},
     a : PairGlobePoints, b : PairGlobePoints]
    \cup [fn : {"planarBearingDegrees", "flatMidpoint"}, a : PairFlatPoints, b : PairFlatPoints]

InitPair ==
    /\ ToolAtRest
    /\ args \in PairCalls
    /\ ret = <<>>
    /\ frame = <<>>

CallInitialBearingDegrees ==
    /\ ret = <<>>
    /\ args.fn = "initialBearingDegrees"
    /\ ret' = [value |-> initialBearingDegrees(args.a, args.b)]
    /\ UNCHANGED <<tool, args, frame>>

CallPlanarBearingDegrees ==
    /\ ret = <<>>
    /\ args.fn = "planarBearingDegrees"
    /\ ret' = [value |-> planarBearingDegrees(args.a, args.b)]
    /\ UNCHANGED <<tool, args, frame>>

\* the calls geographicMidpoint(a, b) and geographicMidpoint(b, a)
CallGeographicMidpoint ==
    /\ ret = <<>>
    /\ args.fn = "geographicMidpoint"
    /\ ret' = [ab |-> geographicMidpoint(args.a, args.b),
               ba |-> geographicMidpoint(args.b, args.a)]
    /\ UNCHANGED <<tool, args, frame>>

\* the calls flatMidpoint(a, b) and flatMidpoint(b, a)
CallFlatMidpoint ==
    /\ ret = <<>>
    /\ args.fn = "flatMidpoint"
    /\ ret' = [ab |-> flatMidpoint(args.a, args.b), ba |-> flatMidpoint(args.b, args.a)]
    /\ UNCHANGED <<tool, args, frame>>

NextPair ==
    \/ CallInitialBearingDegrees
    \/ CallPlanarBearingDegrees
    \/ CallGeographicMidpoint
    \/ CallFlatMidpoint

SpecPair == InitPair /\ [][NextPair]_vars

(***************************************************************************)
(* src/lib/coordinate-providers.ts: the provider detector                  *)
(*                                                                         *)
(* A pattern of the provider table is the sequence of the alternatives of  *)
(* its outer group, each a sequence of items; pattern.test(text) holds     *)
(* when one of the alternatives is found in the text.  An alternative that *)
(* branches inside (yandex\.(?:com|ru)\/maps) is written out once for each *)
(* branch.                                                                 *)
(***************************************************************************)
\* \w, restricted to the alphabet
WordChar == Lower \cup Upper \cup Digit

\* RegExp.prototype.test
Test(text, pattern) == \E i \in DOMAIN pattern : Search(text, pattern[i]).ok

Provider(id, pattern) == [id |-> id, pattern |-> pattern]

\* the provider table, in its order
PROVIDER_PATTERNS ==
    <<Provider("google_maps",
         <<LitI(<<"m", "a", "p", "s", ".", "g", "o", "o", "g", "l", "e", ".">>),
           LitI(<<"g", "o", "o", "g", "l", "e", ".", "c", "o", "m", "/", "m", "a", "p", "s">>),
           LitI(<<"g", "o", "o", "g", "l", "e", ".", "c", "o", ".">>) \o <<Plus(WordChar)>>
               \o LitI(<<"/", "m", "a", "p", "s">>),
           LitI(<<"g", "o", "o", ".", "g", "l", "/", "m", "a", "p", "s">>)>>),
      Provider("apple_maps",
         <<LitI(<<"m", "a", "p", "s", ".", "a", "p", "p", "l", "e", ".", "c", "o", "m">>)>>),
      Provider("openstreetmap",
         <<LitI(<<"o", "p", "e", "n", "s", "t", "r", "e", "e", "t", "m", "a", "p", ".", "o", "r", "g">>),
           LitI(<<"o", "s", "m", ".", "o", "r", "g">>),
           LitI(<<"w", "w", "w", ".", "o", "s", "m", ".", "o", "r", "g">>)>>),
      Provider("bing_maps",
         <<LitI(<<"b", "i", "n", "g", ".", "c", "o", "m", "/", "m", "a", "p", "s">>)>>),
      Provider("here_wego",
         <<LitI(<<"h", "e", "r", "e", ".", "c", "o", "m">>),
           LitI(<<"w", "e", "g", "o", ".", "h", "e", "r", "e", ".", "c", "o", "m">>),
           LitI(<<"w", "e", "g", "o", ".", "h", "e", "r", "e", ".", "n", "e", "t">>)>>),
      Provider("waze",
         <<LitI(<<"w", "a", "z", "e", ".", "c", "o", "m">>)>>),
      Provider("yandex_maps",
         <<LitI(<<"y", "a", "n", "d", "e", "x", ".", "c", "o", "m", "/", "m", "a", "p", "s">>),
           LitI(<<"y", "a", "n", "d", "e", "x", ".", "r", "u", "/", "m", "a", "p", "s">>)>>),
      Provider("mapy_cz",
         <<LitI(<<"m", "a", "p", "y", ".", "c", "z">>)>>),
      Provider("baidu_maps",
         <<LitI(<<"b", "a", "i", "d", "u", ".", "c", "o", "m", "/", "m", "a", "p", "s">>),
           LitI(<<"m", "a", "p", ".", "b", "a", "i", "d", "u", ".", "c", "o", "m">>)>>),
      Provider("what3words",
         <<LitI(<<"w", "h", "a", "t", "3", "w", "o", "r", "d", "s", ".", "c", "o", "m">>)>>),
      Provider("mapbox",
         <<LitI(<<"m", "a", "p", "b", "o", "x", ".", "c", "o", "m">>)>>)>>

\* /^geo:\s*-?\d/i
geoUriRe == LitI(<<"g", "e", "o", ":">>) \o <<Star(Space), Opt(<<One({"-"})>>), One(Digit)>>

\* /^https?:\/\//i
httpRe == LitI(<<"h", "t", "t", "p">>) \o <<Opt(LitI(<<"s">>))>> \o LitI(<<":", "/", "/">>)

\* /\@-?\d[\d.]*,-?[\d.]+/
atFragmentRe ==
    <<One({"@"}), Opt(<<One({"-"})>>), One(Digit), Star(Digit \cup {"."}), One({","}),
      Opt(<<One({"-"})>>), Plus(Digit \cup {"."})>>

\* a pattern anchored by ^
TestAtStart(text, items) == MatchFrom(text, items, 1).ok

HttpsPrefix == <<"h", "t", "t", "p", "s", ":", "/", "/">>

\* String.prototype.toLowerCase
toLowerCase(text) == [i \in DOMAIN text |-> ToLowerChar(text[i])]

\* the port of the scheme, which the href leaves out
DefaultPort(scheme) == IF scheme = HttpsPrefix THEN <<"4", "4", "3">> ELSE <<"8", "0">>

\* url.hostname and url.href of a URL of the scheme http or https that
\* new URL accepts; the authority runs from a to authEnd - 1, its last "@"
\* is at lastAt (0 without one) and the first ":" of its host and port at
\* a + h - 1.  The href has the scheme and the host in lower case, two
\* slashes after the scheme, no default port and a path of at least "/"
UrlSerialized(raw, scheme, userinfo, host, port, rest) ==
    [hostname |-> toLowerCase(host),
     href |-> toLowerCase(scheme)
              \o (IF userinfo = <<>> THEN <<>> ELSE userinfo \o <<"@">>)
              \o toLowerCase(host)
              \o (IF port = <<>> \/ port = DefaultPort(toLowerCase(scheme))
                  THEN <<>> ELSE <<":">> \o port)
              \o (IF rest = <<>> \/ rest[1] # "/" THEN <<"/">> ELSE <<>>)
              \o rest]

UrlHostAndPort(raw, scheme, userinfo, hostport, h, rest) ==
    UrlSerialized(raw, scheme, userinfo, SubSeq(hostport, 1, h - 1),
                  SubSeq(hostport, h + 1, Len(hostport)), rest)

UrlUserinfo(raw, scheme, authority, lastAt, rest) ==
    UrlHostAndPort(raw, scheme, SubSeq(authority, 1, lastAt - 1),
                   SubSeq(authority, lastAt + 1, Len(authority)),
                   UpTo(SubSeq(authority, lastAt + 1, Len(authority)), 1, {":"}), rest)

LastAt(authority) ==
    IF \E i \in DOMAIN authority : authority[i] = "@"
    THEN CHOOSE i \in DOMAIN authority :
            authority[i] = "@" /\ \A j \in DOMAIN authority : authority[j] = "@" => j <= i
    ELSE 0

UrlParts(raw, e, a, authEnd) ==
    UrlUserinfo(raw, SubSeq(raw, 1, e) \o <<"/", "/">>, SubSeq(raw, a, authEnd - 1),
                LastAt(SubSeq(raw, a, authEnd - 1)), SubSeq(raw, authEnd, Len(raw)))

UrlFrom(raw, e, a) == UrlParts(raw, e, a, UpTo(raw, a, {"/", "?", "#"}))

\* url.href and url.hostname
UrlText(raw) ==
    UrlFrom(raw, UpTo(raw, 1, {":"}), RunEnd(raw, UpTo(raw, 1, {":"}) + 1, {"/"}, Len(raw) + 1))

RECURSIVE FirstProvider(_, _, _)
\* the for loop over PROVIDER_PATTERNS, from its entry n on
FirstProvider(fullUrl, hostname, n) ==
    IF n > Len(PROVIDER_PATTERNS) THEN "null"
    ELSE IF Test(fullUrl, PROVIDER_PATTERNS[n].pattern)
            \/ Test(hostname, PROVIDER_PATTERNS[n].pattern)
    THEN PROVIDER_PATTERNS[n].id
    ELSE FirstProvider(fullUrl, hostname, n + 1)

\* the test of the generic link, after the loop
CopiedLink(url, fullUrl) ==
    \/ Test(fullUrl, <<atFragmentRe>>)
    \/ searchParamsGet(url, <<"q">>).some
    \/ searchParamsGet(url, <<"l", "l">>).some

\* the generic link tested before the result of the loop
ProviderOrLinkLinkFirst(url, fullUrl, found) ==
    IF CopiedLink(url, fullUrl) THEN "copied_link" ELSE found

\* the result of the loop if it has one, or else the generic link
ProviderOrLink(url, fullUrl, found) ==
    IF found # "null" THEN found
    ELSE IF CopiedLink(url, fullUrl) THEN "copied_link"
    ELSE "null"

\* the try block: new URL(urlString), the loop and the generic link
detectFromParts(url, parts) ==
    ProviderOrLink(url, parts.href, FirstProvider(parts.href, parts.hostname, 1))

detectFromUrl(urlString, url) ==
    IF url.ok THEN detectFromParts(url, UrlText(urlString)) ELSE "null"

detectFromUrlString(urlString) == detectFromUrl(urlString, UrlParse(urlString))

detectFromTrimmed(trimmed) ==
    IF trimmed = <<>> THEN "null"
    ELSE IF TestAtStart(trimmed, geoUriRe) THEN "geo_uri"
    ELSE detectFromUrlString(IF TestAtStart(trimmed, httpRe) THEN trimmed
                             ELSE HttpsPrefix \o trimmed)

detectCoordinateProvider(raw) == detectFromTrimmed(trim(raw))

(***************************************************************************)
(* detectCoordinateProvider called on a text                               *)
(***************************************************************************)
\* texts with and without a scheme
ProviderSchemes ==
    {<<>>, <<"h", "t", "t", "p", ":", "/", "/">>, <<"H", "T", "T", "P", "S", ":", "/", "/">>}

\* hosts: of one entry of the table, of two entries, of an entry whose pattern
\* needs a path, with the default port, of no entry, and two that new URL rejects
ProviderHosts ==
    {<<"m", "a", "p", "s", ".", "g", "o", "o", "g", "l", "e", ".", "c", "o", "m">>,
     <<"g", "o", "o", "g", "l", "e", ".", "c", "o", ".", "u", "k">>,
     <<"w", "w", "w", ".", "o", "s", "m", ".", "o", "r", "g">>,
     <<"b", "i", "n", "g", ".", "c", "o", "m">>,
     <<"b", "i", "n", "g", ".", "c", "o", "m", ":", "4", "4", "3">>,
     <<"h", "e", "r", "e", ".", "c", "o", "m", ".", "w", "a", "z", "e", ".", "c", "o", "m">>,
     <<"M", "a", "p", "y", ".", "c", "z">>,
     <<"e", "x", "a", "m", "p", "l", "e", ".", "c", "o", "m">>,
     <<"a", " ", "b", ".", "c", "o", "m">>,
     <<"e", "x", "a", "m", "p", "l", "e", ".", "c", "o", "m", ":", "x">>}

\* paths: none, one that completes a pattern, an @lat,lon fragment, and one that
\* holds the pattern of the last entry
ProviderPaths ==
    {<<>>, <<"/", "m", "a", "p", "s">>, <<"/", "@", "1", ",", "2">>,
     <<"/", "m", "a", "p", "b", "o", "x", ".", "c", "o", "m">>}

\* queries
ProviderQueries ==
    {<<>>, <<"?", "q", "=", "a">>, <<"?", "l", "l", "=", "1", ",", "2">>, <<"?", "x", "=", "1">>}

\* the empty text, texts that start with geo:, and a plain pair
GeoTexts ==
    {<<>>, <<" ", " ">>, <<"g", "e", "o", ":", "1", ",", "2">>,
     <<"G", "E", "O", ":", " ", "-", "3">>, <<" ", "g", "e", "o", ":", "5", " ">>,
     <<"g", "e", "o", ":", "x">>, <<"g", "e", "o", ":", "?", "q", "=", "1">>,
     <<"g", "e", "o", ":", "1", ",", "2", "?", "u", "=", "m", "a", "p", "s", ".", "g", "o", "o", "g", "l", "e", ".", "c", "o", "m">>,
     <<"g", "e", "o", ":", "m", "a", "p", "s", ".", "g", "o", "o", "g", "l", "e", ".", "c", "o", "m">>,
     <<"1", ",", "2">>}

ProviderInputs ==
    GeoTexts \cup {s \o h \o p \o q : s \in ProviderSchemes, h \in ProviderHosts,
                                    p \in ProviderPaths, q \in ProviderQueries}

ProviderCalls == [fn : {"detectCoordinateProvider"}, raw : ProviderInputs]

InitProvider ==
    /\ ToolAtRest
    /\ args \in ProviderCalls
    /\ ret = <<>>
    /\ frame = <<>>

CallDetectCoordinateProvider ==
    /\ ret = <<>>
    /\ args.fn = "detectCoordinateProvider"
    /\ ret' = [id |-> detectCoordinateProvider(args.raw)]
    /\ UNCHANGED <<tool, args, frame>>

NextProvider == CallDetectCoordinateProvider

SpecProvider == InitProvider /\ [][NextProvider]_vars

(***************************************************************************)
(* CoordinateTool opened from a query string and driven by its mode        *)
(* buttons and algorithm checkboxes.  A step is one event handler with the *)
(* render it causes, or the effect of a change of mode with its render:    *)
(* the effect runs after the render that follows setMode, and before the   *)
(* next event is handled.  args holds the search parameters the tool was   *)
(* opened with, frame the effect that is pending, ret the rows of the      *)
(* distances memo and the share query as the last render computed them.    *)
(***************************************************************************)
\* the characters of the identifiers the query string carries
WordText ==
    [globe |-> <<"g", "l", "o", "b", "e">>,
     flat |-> <<"f", "l", "a", "t">>,
     map |-> <<"m", "a", "p">>,
     haversine |-> <<"h", "a", "v", "e", "r", "s", "i", "n", "e">>,
     vincenty |-> <<"v", "i", "n", "c", "e", "n", "t", "y">>,
     equirect |-> <<"e", "q", "u", "i", "r", "e", "c", "t">>,
     euclidean2d |-> <<"e", "u", "c", "l", "i", "d", "e", "a", "n", "2", "d">>,
     euclidean3d |-> <<"e", "u", "c", "l", "i", "d", "e", "a", "n", "3", "d">>,
     manhattan2d |-> <<"m", "a", "n", "h", "a", "t", "t", "a", "n", "2", "d">>]

Param(text) == [some |-> TRUE, value |-> text]

DefaultPointB == <<"4", "0", ".", "7", "1", "2", "8", ",", " ", "-", "7", "4", ".", "0", "0", "6", "0">>

parseMode(value) ==
    IF value.some /\ value.value = WordText.flat THEN "flat" ELSE "globe"

parseProjection(value) ==
    IF value.some /\ value.value = WordText.globe THEN "globe" ELSE "map"

allowedAlgorithms(m) == IF m = "globe" THEN globeAlgorithms ELSE flatAlgorithms

\* (value ?? "").split(",").map(trim).filter(Boolean), then the items that
\* allowed includes, or its first algorithm when none is left
parseAlgorithmList(value, m) ==
    LET items == SplitOn(IF value.some THEN value.value ELSE <<>>, ",")
        requested == SelectSeq([i \in DOMAIN items |-> trim(items[i])],
                               LAMBDA item : item # <<>>)
        allowed == allowedAlgorithms(m)
        IsAllowed(item) == \E i \in DOMAIN allowed : WordText[allowed[i]] = item
        filtered == SelectSeq(requested, IsAllowed)
    IN  IF filtered # <<>>
        THEN [i \in DOMAIN filtered |->
                 CHOOSE id \in AlgorithmIds : WordText[id] = filtered[i]]
        ELSE <<allowed[1]>>

\* the branch calculateGlobeDistanceMeters or calculateFlatDistanceUnits
\* takes for an identifier
ComputedBy(fn, algorithm) ==
    IF fn = "calculateGlobeDistanceMeters"
    THEN IF algorithm \in {"haversine", "vincenty"} THEN algorithm ELSE "equirect"
    ELSE IF algorithm \in {"euclidean2d", "euclidean3d"} THEN algorithm ELSE "manhattan2d"

\* the distances memo: a row for each selected algorithm, with the function
\* it was passed to and the algorithm that computed its value
distances(m, a, b, selected) ==
    IF ~a.ok \/ ~b.ok
    THEN <<>>
    ELSE LET fn == IF m = "globe" THEN "calculateGlobeDistanceMeters"
                   ELSE "calculateFlatDistanceUnits"
         IN  [i \in DOMAIN selected |->
                 [algorithm |-> selected[i], fn |-> fn,
                  by |-> ComputedBy(fn, selected[i])]]

\* the two hexadecimal digits of the characters that URLSearchParams escapes
EscapeOf ==
    [c \in {",", "+", ":", ";", "=", "@", "/", "?", "&", "#", "'", "\""} |->
        CASE c = "," -> <<"2", "C">>
          [] c = "+" -> <<"2", "B">>
          [] c = ":" -> <<"3", "A">>
          [] c = ";" -> <<"3", "B">>
          [] c = "=" -> <<"3", "D">>
          [] c = "@" -> <<"4", "0">>
          [] c = "/" -> <<"2", "F">>
          [] c = "?" -> <<"3", "F">>
          [] c = "&" -> <<"2", "6">>
          [] c = "#" -> <<"2", "3">>
          [] c = "'" -> <<"2", "7">>
          [] c = "\"" -> <<"2", "2">>]

\* the degree sign, two bytes in UTF-8
DegreeEscape == <<"%", "C", "2", "%", "B", "0">>

\* the application/x-www-form-urlencoded serialization of one character
encodeChar(c) ==
    IF c = " " THEN <<"+">>
    ELSE IF c = "*" THEN DegreeEscape
    ELSE IF c \in DOMAIN EscapeOf THEN <<"%">> \o EscapeOf[c]
    ELSE <<c>>

RECURSIVE encode(_)
encode(text) == IF text = <<>> THEN <<>> ELSE encodeChar(text[1]) \o encode(Tail(text))

RECURSIVE decode(_)
\* the decoding of a name or a value of a query string
decode(text) ==
    IF text = <<>> THEN <<>>
    ELSE IF text[1] = "+" THEN <<" ">> \o decode(Tail(text))
    ELSE IF Len(text) >= 6 /\ SubSeq(text, 1, 6) = DegreeEscape
         THEN <<"*">> \o decode(SubSeq(text, 7, Len(text)))
    ELSE IF text[1] = "%" /\ Len(text) >= 3
            /\ \E c \in DOMAIN EscapeOf : EscapeOf[c] = SubSeq(text, 2, 3)
         THEN <<CHOOSE c \in DOMAIN EscapeOf : EscapeOf[c] = SubSeq(text, 2, 3)>>
              \o decode(SubSeq(text, 4, Len(text)))
    ELSE <<text[1]>> \o decode(Tail(text))

\* the position of the first sep of the text, past its end when it has none
IndexOf(text, sep) ==
    IF \E i \in DOMAIN text : text[i] = sep
    THEN CHOOSE i \in DOMAIN text : text[i] = sep /\ \A j \in 1..(i - 1) : text[j] # sep
    ELSE Len(text) + 1

RECURSIVE SplitQuery(_)
\* the pairs of a query string
SplitQuery(query) ==
    IF IndexOf(query, "&") > Len(query) THEN <<query>>
    ELSE <<SubSeq(query, 1, IndexOf(query, "&") - 1)>>
         \o SplitQuery(SubSeq(query, IndexOf(query, "&") + 1, Len(query)))

\* new URLSearchParams(query).get(name)
queryGet(query, name) ==
    LET named == SelectSeq(SplitQuery(query),
                           LAMBDA p : p # <<>> /\ decode(SubSeq(p, 1, IndexOf(p, "=") - 1)) = name)
    IN  IF named = <<>> THEN NoParam
        ELSE Param(decode(SubSeq(named[1], IndexOf(named[1], "=") + 1, Len(named[1]))))

\* params.set(name, value) as toString() writes it
QueryPair(name, value) == encode(name) \o <<"=">> \o encode(value)

\* the shareQuery memo; the unit and the scale are those the tool opens with
shareQuery(m, p, a, selected) ==
    JoinOn(<<QueryPair(<<"m", "o", "d", "e">>, WordText[m]),
             QueryPair(<<"p", "r", "o", "j", "e", "c", "t", "i", "o", "n">>, WordText[p]),
             QueryPair(<<"a">>, a),
             QueryPair(<<"b">>, DefaultPointB),
             QueryPair(<<"a", "l", "g", "o", "s">>,
                       JoinOn([i \in DOMAIN selected |-> WordText[selected[i]]], ",")),
             QueryPair(<<"u", "n", "i", "t">>, <<"k", "m">>),
             QueryPair(<<"s", "c", "a", "l", "e">>, <<"1">>)>>, "&")

\* the search parameters of a tool opened with a query string
searchParamsOf(query) ==
    [mode |-> queryGet(query, <<"m", "o", "d", "e">>),
     projection |-> queryGet(query, <<"p", "r", "o", "j", "e", "c", "t", "i", "o", "n">>),
     algos |-> queryGet(query, <<"a", "l", "g", "o", "s">>),
     a |-> queryGet(query, <<"a">>)]

\* a render: the memos recomputed from the state
Render(m, p, input, selected) ==
    [distances |-> distances(m, Parsed(m, input), Parsed(m, DefaultPointB), selected),
     shareQuery |-> shareQuery(m, p, input, selected)]

\* the values of the mode, projection, algos and a parameters of a query
ToolModes == {NoParam, Param(WordText.flat), Param(WordText.globe), Param(WordText.map)}

ToolProjections == {NoParam, Param(WordText.globe)}

ToolAlgos ==
    {NoParam, Param(<<>>),
     Param(<<"h", "a", "v", "e", "r", "s", "i", "n", "e">>),
     Param(<<"h", "a", "v", "e", "r", "s", "i", "n", "e", ",", "h", "a", "v", "e", "r", "s", "i", "n", "e">>),
     Param(<<" ", "v", "i", "n", "c", "e", "n", "t", "y", " ", ",", " ", "e", "q", "u", "i", "r", "e", "c", "t">>),
     Param(<<"m", "a", "n", "h", "a", "t", "t", "a", "n", "2", "d", ",", "v", "i", "n", "c", "e", "n", "t", "y">>),
     Param(<<"e", "u", "c", "l", "i", "d", "e", "a", "n", "3", "d", ",", ",", "H", "a", "v", "e", "r", "s", "i", "n", "e">>),
     Param(<<"m", "a", "n", "h", "a", "t", "t", "a", "n", "2", "d", ",", "e", "u", "c", "l", "i", "d", "e", "a", "n", "2", "d", ",", "m", "a", "n", "h", "a", "t", "t", "a", "n", "2", "d">>)}

ToolPoints == {NoParam, Param(<<>>), Param(<<"1", ",", "2", " ", "3">>)}

ToolQueries == [mode : ToolModes, projection : ToolProjections, algos : ToolAlgos, a : ToolPoints]

\* the initial state of the tool opened with searchParams, and its first render
Opened(searchParams) ==
    /\ mode = parseMode(searchParams.mode)
    /\ projection = parseProjection(searchParams.projection)
    /\ pointAInput = IF searchParams.a.some THEN searchParams.a.value ELSE DefaultPointA
    /\ selectedAlgorithms = parseAlgorithmList(searchParams.algos, parseMode(searchParams.mode))
    /\ detectedProviderA = "null"
    /\ pointAParsed = Parsed(mode, pointAInput)
    /\ typed = MaxTyped
    /\ lonArg = NaN
    /\ lonOut = NaN
    /\ frame = [modeEffect |-> TRUE]
    /\ ret = Render(mode, projection, pointAInput, selectedAlgorithms)

InitTool ==
    /\ args \in ToolQueries
    /\ Opened(args)

\* the effect of [mode], after the first render and after every render in
\* which mode changed
ModeEffect ==
    /\ frame.modeEffect
    /\ selectedAlgorithms' = Kept(selectedAlgorithms, allowedAlgorithms(mode))
    /\ projection' = IF mode = "flat" THEN "map" ELSE projection
    /\ frame' = [modeEffect |-> FALSE]
    /\ ret' = Render(mode, projection', pointAInput, selectedAlgorithms')
    /\ UNCHANGED <<mode, pointAInput, detectedProviderA, pointAParsed, typed, lonArg, lonOut,
                   args>>

\* onClick of a mode button: setMode(m) and the render with the new mode
ClickMode(m) ==
    /\ ~frame.modeEffect
    /\ m # mode
    /\ mode' = m
    /\ pointAParsed' = Parsed(m, pointAInput)
    /\ frame' = [modeEffect |-> TRUE]
    /\ ret' = Render(m, projection, pointAInput, selectedAlgorithms)
    /\ UNCHANGED <<projection, selectedAlgorithms, pointAInput, detectedProviderA, typed,
                   lonArg, lonOut, args>>

\* onClick of a projection button, shown in globe mode
ClickProjection(p) ==
    /\ ~frame.modeEffect
    /\ mode = "globe"
    /\ p # projection
    /\ projection' = p
    /\ ret' = Render(mode, p, pointAInput, selectedAlgorithms)
    /\ UNCHANGED <<mode, selectedAlgorithms, pointAInput, detectedProviderA, pointAParsed,
                   typed, lonArg, lonOut, args, frame>>

toggled(previous, algorithm) ==
    IF Includes(previous, algorithm)
    THEN IF Len(previous) = 1 THEN previous
         ELSE SelectSeq(previous, LAMBDA item : item # algorithm)
    ELSE Append(previous, algorithm)

\* onCheckedChange of the checkbox of an algorithm
toggleAlgorithm(algorithm) ==
    /\ ~frame.modeEffect
    /\ Includes(allowedAlgorithms(mode), algorithm)
    /\ selectedAlgorithms' = toggled(selectedAlgorithms, algorithm)
    /\ ret' = Render(mode, projection, pointAInput, selectedAlgorithms')
    /\ UNCHANGED <<mode, projection, pointAInput, detectedProviderA, pointAParsed, typed,
                   lonArg, lonOut, args, frame>>

NextTool ==
    \/ ModeEffect
    \/ \E m \in {"globe", "flat"} : ClickMode(m)
    \/ \E p \in {"map", "globe"} : ClickProjection(p)
    \/ \E algorithm \in AlgorithmIds : toggleAlgorithm(algorithm)

SpecTool == InitTool /\ [][NextTool]_vars

(***************************************************************************)
(* A paste into the point A field.  The browser dispatches the paste event *)
(* first; the text is inserted after its handler has returned, and the     *)
(* change event follows when the insertion changed the value of the field. *)
(* ret holds the text of the last paste and the provider detected in it,   *)
(* frame the value of the change event to come.                            *)
(***************************************************************************)
PastedTexts ==
    {<<"g", "e", "o", ":", "1", ",", "2">>,
     <<"h", "t", "t", "p", "s", ":", "/", "/", "m", "a", "p", "s", ".", "g", "o", "o", "g", "l", "e", ".", "c", "o", "m", "/", "@", "1", ",", "2">>,
     <<"h", "t", "t", "p", ":", "/", "/", "b", "i", "n", "g", ".", "c", "o", "m", "/", "m", "a", "p", "s", "?", "q", "=", "a">>,
     <<"h", "t", "t", "p", "s", ":", "/", "/", "e", "x", "a", "m", "p", "l", "e", ".", "c", "o", "m", "/", "?", "l", "l", "=", "1", ",", "2">>,
     <<"h", "t", "t", "p", "s", ":", "/", "/", "e", "x", "a", "m", "p", "l", "e", ".", "c", "o", "m", "/", "x">>,
     <<"1", ",", "2">>,
     <<"w", "w", "w", ".", "o", "s", "m", ".", "o", "r", "g">>,
     <<" ">>}

NoChange == [change |-> FALSE, value |-> <<>>]

InitPaste ==
    /\ ToolAtRest
    /\ args = <<>>
    /\ ret = <<>>
    /\ frame = NoChange

\* the provider state after onPaste
pastedProvider(previous, pasted, provider) ==
    IF pasted # <<>> /\ provider # "null" THEN provider ELSE previous

\* onPaste of the point A field; the insertion gives the field the value next
PasteInto(pasted, next, pieces) ==
    /\ ~frame.change
    /\ detectedProviderA' =
           pastedProvider(detectedProviderA, pasted, detectCoordinateProvider(pasted))
    /\ ret' = [pasted |-> pasted, provider |-> detectCoordinateProvider(pasted),
               changes |-> next # pointAInput]
    /\ frame' = [change |-> next # pointAInput, value |-> next]
    /\ typed' = pieces
    /\ UNCHANGED <<mode, projection, selectedAlgorithms, pointAInput, pointAParsed,
                   lonArg, lonOut, args>>

\* a paste over the whole text of the field
PasteOver(pasted) == PasteInto(pasted, pasted, 1)

\* a paste at the end of the text of the field
PasteAtEnd(pasted) ==
    /\ typed < MaxTyped
    /\ PasteInto(pasted, pointAInput \o pasted, typed + 1)

\* onChange of the point A field after the insertion of the pasted text
ChangeAfterPaste ==
    /\ frame.change
    /\ pointAInput' = frame.value
    /\ detectedProviderA' = "null"
    /\ pointAParsed' = Parsed(mode, frame.value)
    /\ frame' = NoChange
    /\ UNCHANGED <<mode, projection, selectedAlgorithms, typed, lonArg, lonOut, args, ret>>

\* onChange of the point A field, the user having deleted its text
EditPointA ==
    /\ ~frame.change
    /\ pointAInput # <<>>
    /\ pointAInput' = <<>>
    /\ detectedProviderA' = "null"
    /\ pointAParsed' = Parsed(mode, <<>>)
    /\ typed' = 0
    /\ ret' = <<>>
    /\ UNCHANGED <<mode, projection, selectedAlgorithms, lonArg, lonOut, args, frame>>

NextPaste ==
    \/ \E pasted \in PastedTexts : PasteOver(pasted)
    \/ \E pasted \in PastedTexts : PasteAtEnd(pasted)
    \/ ChangeAfterPaste
    \/ EditPointA

SpecPaste == InitPaste /\ [][NextPaste]_vars

(***************************************************************************)
(* GlobeMapLibre under the zoom buttons of CoordinateTool.  args holds the *)
(* props of the map (the points that parsed, the zoom requests), frame its *)
(* own state (mapReady, the skip flag, whether a run of the data effect is *)
(* due and what made it due), ret what became of the requests, what the    *)
(* last run of the effect did and what had made it due.  An event is       *)
(* handled when no run is due.                                             *)
(***************************************************************************)
InitZoom ==
    /\ ToolAtRest
    /\ args = [pointA |-> TRUE, pointB |-> TRUE, zoomToPoint |-> "null", zoomFitBoth |-> FALSE]
    /\ frame = [mapReady |-> FALSE, skipNextFitBounds |-> FALSE, run |-> TRUE, cause |-> "mount"]
    /\ ret = [point |-> "none", both |-> "none", did |-> "none", after |-> "none"]

Due(cause) == [frame EXCEPT !.run = TRUE, !.cause = cause]

\* the load event of the map: the sources are added and setMapReady(true)
MapLoad ==
    /\ ~frame.run
    /\ ~frame.mapReady
    /\ frame' = [Due("load") EXCEPT !.mapReady = TRUE]
    /\ UNCHANGED <<tool, args, ret>>

\* onClick of the zoom button of point A or B, enabled when the point parsed
ClickZoomToPoint(p) ==
    /\ ~frame.run
    /\ IF p = "A" THEN args.pointA ELSE args.pointB
    /\ args' = [args EXCEPT !.zoomToPoint = p]
    /\ ret' = [ret EXCEPT !.point = "requested"]
    /\ frame' = Due("request")
    /\ UNCHANGED tool

\* onClick of the button that fits both points, enabled when both parsed
ClickZoomFitBoth ==
    /\ ~frame.run
    /\ args.pointA /\ args.pointB
    /\ ~args.zoomFitBoth
    /\ args' = [args EXCEPT !.zoomFitBoth = TRUE]
    /\ ret' = [ret EXCEPT !.both = "requested"]
    /\ frame' = Due("request")
    /\ UNCHANGED tool

\* an edit of a point field: the point is another one, or stops or starts
\* being one
ChangePoint(p, present) ==
    /\ ~frame.run
    /\ args' = IF p = "A" THEN [args EXCEPT !.pointA = present]
               ELSE [args EXCEPT !.pointB = present]
    /\ frame' = Due("points")
    /\ UNCHANGED <<tool, ret>>

\* what becomes of a request when it is served, and when onZoomComplete
\* clears it
Served(request) == IF request = "requested" THEN "served" ELSE "twice"

Cleared(request) == IF request = "requested" THEN "dropped" ELSE request

\* flyTo the point, then onZoomComplete
ServeZoomToPoint ==
    /\ args' = [args EXCEPT !.zoomToPoint = "null", !.zoomFitBoth = FALSE]
    /\ frame' = [Due("served") EXCEPT !.skipNextFitBounds = TRUE]
    /\ ret' = [point |-> Served(ret.point), both |-> Cleared(ret.both), did |-> "flyTo",
               after |-> frame.cause]

\* fitBounds of the two points, then onZoomComplete
ServeZoomFitBoth ==
    /\ args' = [args EXCEPT !.zoomToPoint = "null", !.zoomFitBoth = FALSE]
    /\ frame' = [Due("served") EXCEPT !.skipNextFitBounds = TRUE]
    /\ ret' = [point |-> Cleared(ret.point), both |-> Served(ret.both), did |-> "fitBoth",
               after |-> frame.cause]

\* the data effect: nothing before the map has its sources, then the zoom
\* requests, then the skip flag, then the fit to all points
DataEffect ==
    /\ frame.run
    /\ IF ~frame.mapReady
       THEN /\ frame' = [frame EXCEPT !.run = FALSE]
            /\ ret' = [ret EXCEPT !.did = "none", !.after = frame.cause]
            /\ UNCHANGED args
       ELSE IF args.zoomToPoint # "null" THEN ServeZoomToPoint
       ELSE IF args.zoomFitBoth /\ args.pointA /\ args.pointB THEN ServeZoomFitBoth
       ELSE IF frame.skipNextFitBounds
       THEN /\ frame' = [frame EXCEPT !.run = FALSE, !.skipNextFitBounds = FALSE]
            /\ ret' = [ret EXCEPT !.did = "skipped", !.after = frame.cause]
            /\ UNCHANGED args
       ELSE /\ frame' = [frame EXCEPT !.run = FALSE]
            /\ ret' = [ret EXCEPT !.did = "fitAll", !.after = frame.cause]
            /\ UNCHANGED args
    /\ UNCHANGED tool

NextZoom ==
    \/ MapLoad
    \/ \E p \in {"A", "B"} : ClickZoomToPoint(p)
    \/ ClickZoomFitBoth
    \/ \E p \in {"A", "B"}, present \in BOOLEAN : ChangePoint(p, present)
    \/ DataEffect

SpecZoom == InitZoom /\ [][NextZoom]_vars

(***************************************************************************)
(* The locale proxy on a request and on the requests its redirects cause.  *)
(* args holds the request (the path and the Accept-Language header), ret   *)
(* the response to it (<<>> until the proxy has answered), frame the       *)
(* number of redirects the client has followed.                            *)
(***************************************************************************)
locales ==
    <<<<"e", "n">>, <<"e", "s">>, <<"f", "r">>, <<"d", "e">>, <<"i", "t">>,
      <<"p", "t">>, <<"n", "l">>, <<"p", "l">>, <<"t", "r">>, <<"r", "u">>,
      <<"a", "r">>, <<"h", "i">>, <<"z", "h">>, <<"j", "a">>, <<"k", "o">>,
      <<"i", "d">>, <<"v", "i">>, <<"t", "h">>, <<"u", "k">>, <<"c", "s">>>>

defaultLocale == locales[1]

\* how many redirects a client follows before it gives up
MaxRedirects == 3

startsWith(text, prefix) ==
    Len(prefix) <= Len(text) /\ SubSeq(text, 1, Len(prefix)) = prefix

\* the first part of each item of the header, trimmed, in lower case, the
\* empty ones left out
preferredOf(header) ==
    LET parts == SplitOn(header, ",")
    IN  SelectSeq([i \in DOMAIN parts |-> toLowerCase(trim(SplitOn(parts[i], ";")[1]))],
                  LAMBDA candidate : candidate # <<>>)

\* the text of a candidate before its first "-"
BaseOf(candidate) == SplitOn(candidate, "-")[1]

RECURSIVE FirstLocale(_, _)
\* the for loop: the base of the first candidate from n on that is a locale
FirstLocale(preferred, n) ==
    IF n > Len(preferred) THEN defaultLocale
    ELSE IF BaseOf(preferred[n]) # <<>> /\ Includes(locales, BaseOf(preferred[n]))
         THEN BaseOf(preferred[n])
    ELSE FirstLocale(preferred, n + 1)

getPreferredLocale(request) ==
    IF ~request.header.some \/ request.header.value = <<>>
    THEN defaultLocale
    ELSE FirstLocale(preferredOf(request.header.value), 1)

hasLocalePrefix(pathname) ==
    \E i \in DOMAIN locales :
        \/ pathname = <<"/">> \o locales[i]
        \/ startsWith(pathname, <<"/">> \o locales[i] \o <<"/">>)

PassedOn == [kind |-> "next", pathname |-> <<>>]

\* the prefix test reduced to pathname === `/${locale}`
proxyExactLocaleOnly(request) ==
    IF \/ startsWith(request.pathname, <<"/", "_", "n", "e", "x", "t">>)
       \/ Includes(request.pathname, ".")
       \/ startsWith(request.pathname, <<"/", "p", "r", "o", "x", "y", "/">>)
       \/ \E i \in DOMAIN locales : request.pathname = <<"/">> \o locales[i]
    THEN PassedOn
    ELSE [kind |-> "redirect",
          pathname |-> <<"/">> \o getPreferredLocale(request) \o request.pathname]

proxy(request) ==
    IF \/ startsWith(request.pathname, <<"/", "_", "n", "e", "x", "t">>)
       \/ Includes(request.pathname, ".")
       \/ startsWith(request.pathname, <<"/", "p", "r", "o", "x", "y", "/">>)
       \/ hasLocalePrefix(request.pathname)
    THEN PassedOn
    ELSE [kind |-> "redirect",
          pathname |-> <<"/">> \o getPreferredLocale(request) \o request.pathname]

RequestPaths ==
    {<<"/">>,
     <<"/", "e", "n">>,
     <<"/", "e", "n", "/">>,
     <<"/", "e", "n", "/", "a", "b", "o", "u", "t">>,
     <<"/", "f", "r">>,
     <<"/", "c", "s", "/", "x", "/", "y">>,
     <<"/", "a", "b", "o", "u", "t">>,
     <<"/", "e", "n", "g", "l", "i", "s", "h">>,
     <<"/", "E", "N">>,
     <<"/", "e">>,
     <<"/", "/", "e", "n">>,
     <<"/", "_", "n", "e", "x", "t", "/", "d", "a", "t", "a">>,
     <<"/", "p", "r", "o", "x", "y", "/", "a", "p", "i", "/", "e", "v", "e", "n", "t">>,
     <<"/", "p", "r", "o", "x", "y">>,
     <<"/", "r", "o", "b", "o", "t", "s", ".", "t", "x", "t">>,
     <<"/", "f", "r", ".", "h", "t", "m", "l">>,
     <<"/", "a", "p", "i", "/", "x">>}

RequestHeaders ==
    {NoParam}
    \cup {[some |-> TRUE, value |-> h] :
             h \in {<<>>,
                    <<"f", "r", "-", "C", "H", ",", " ", "f", "r", ";", "q", "=", "0", ".", "9", ",", " ", "e", "n", ";", "q", "=", "0", ".", "8">>,
                    <<"x", "x", ",", " ", "D", "E", "-", "a", "t", ";", "q", "=", "1">>,
                    <<"*">>,
                    <<"t", "l", "h", ";", "q", "=", "1">>,
                    <<" ", ";", "q", "=", "1", ",", ",", "p", "l">>,
                    <<"-", "e", "n", ",", " ", "z", "z">>,
                    <<"E", "N">>,
                    <<"e", " ", "n", ",", " ", "c", "s">>}}

InitProxy ==
    /\ ToolAtRest
    /\ args \in [pathname : RequestPaths, header : RequestHeaders]
    /\ ret = <<>>
    /\ frame = [redirects |-> 0]

\* the call proxy(request)
CallProxy ==
    /\ ret = <<>>
    /\ ret' = proxy(args)
    /\ UNCHANGED <<tool, args, frame>>

\* the client requests the path of the redirect, with the same header
FollowRedirect ==
    /\ ret # <<>>
    /\ ret.kind = "redirect"
    /\ frame.redirects < MaxRedirects
    /\ args' = [args EXCEPT !.pathname = ret.pathname]
    /\ ret' = <<>>
    /\ frame' = [redirects |-> frame.redirects + 1]
    /\ UNCHANGED tool

NextProxy == CallProxy \/ FollowRedirect

SpecProxy == InitProxy /\ [][NextProxy]_vars


(***************************************************************************)
(* Properties of the parser, read off the point A field                    *)
(***************************************************************************)
Recognizers == <<"url", "dms", "label", "decimal">>

\* what recognizer n returns on the input, taken alone
Recognize(n, input) ==
    CASE n = 1 -> parseCoordinatePairFromUrl(input)
      [] n = 2 -> parseDmsPair(input)
      [] n = 3 -> labelPair(input)
      [] n = 4 -> decimalPair(input)

\* the first recognizer, in the order of Recognizers, that matches the input
\* taken alone; 0 when none matches
FirstRecognizer(input) ==
    IF Recognize(1, input).some THEN 1
    ELSE IF Recognize(2, input).some THEN 2
    ELSE IF Recognize(3, input).some THEN 3
    ELSE IF Recognize(4, input).some THEN 4
    ELSE 0

WhitespaceOnly(text) == \A i \in DOMAIN text : text[i] \in Space

\* a finite value between lo and hi whole degrees
Within(x, lo, hi) == x.k = "fin" /\ lo * Scale <= x.v /\ x.v <= hi * Scale

GlobeInput == mode = "globe" /\ ~WhitespaceOnly(pointAInput)

FirstMatchDecides(input, r, n) ==
    IF n = 0
    THEN r = Failure("invalid_format", Recognizers, NoPair)
    ELSE /\ r.ran = SubSeq(Recognizers, 1, n)
         /\ r.pair = Recognize(n, input)
         /\ r.ok \/ r.error = "out_of_range"

\* C1: parseGlobeCoordinate tries the recognizers in the order URL, DMS,
\* label, decimal: on a non-empty input the recognizers it evaluates are
\* exactly those up to the first that matches, that one decides the result,
\* and when none matches the result is the invalid_format failure.
C1_RecognizerOrder ==
    GlobeInput =>
        FirstMatchDecides(trim(pointAInput), pointAParsed, FirstRecognizer(trim(pointAInput)))

\* a labeled pair decided an input that the decimal recognizer matches too
C1_Witness ==
    /\ GlobeInput
    /\ pointAParsed.ran = <<"url", "dms", "label">>
    /\ decimalPair(trim(pointAInput)).some

RejectedAt(input, r, n) ==
    (n > 0 /\ ~isValidLatLon(Recognize(n, input).lat, Recognize(n, input).lon)) =>
        /\ ~r.ok /\ r.error = "out_of_range"
        /\ r.ran = SubSeq(Recognizers, 1, n)

\* C2: when the first recognizer that matches extracts values that fail
\* validation, the result is the out_of_range failure and no recognizer
\* after it is evaluated.
C2_NoFallThrough ==
    GlobeInput => RejectedAt(trim(pointAInput), pointAParsed, FirstRecognizer(trim(pointAInput)))

\* the URL recognizer matched a latitude of 95 while the DMS recognizer
\* would have given a valid point
C2_Witness ==
    /\ GlobeInput
    /\ ~pointAParsed.ok /\ pointAParsed.error = "out_of_range"
    /\ pointAParsed.ran = <<"url">>
    /\ parseDmsPair(trim(pointAInput)).some
    /\ isValidLatLon(parseDmsPair(trim(pointAInput)).lat, parseDmsPair(trim(pointAInput)).lon)

Reasons == {"empty", "out_of_range", "invalid_number", "invalid_format"}

\* C3: parseGlobeCoordinate and parseFlatCoordinate never throw: the result
\* is a success carrying a point or a failure whose reason is one of empty,
\* out_of_range, invalid_number, invalid_format.
C3_NeverThrows ==
    /\ ~pointAParsed.thrown
    /\ IF pointAParsed.ok
       THEN DOMAIN pointAParsed.value \in {{"lat", "lon"}, {"x", "y", "z"}}
       ELSE pointAParsed.error \in Reasons

\* new URL threw on the text and the parse went on to the next recognizer
C3_Witness ==
    /\ GlobeInput
    /\ ~UrlParse(trim(pointAInput)).ok
    /\ ~pointAParsed.thrown
    /\ Len(pointAParsed.ran) > 1

\* C4: on an input that is empty or only white space parseGlobeCoordinate
\* returns the empty failure, and no recognizer is evaluated.
C4_EmptyFirst ==
    (mode = "globe" /\ WhitespaceOnly(pointAInput)) =>
        pointAParsed = Failure("empty", <<>>, NoPair)

\* a text of white space, not the empty text
C4_Witness ==
    /\ mode = "globe"
    /\ pointAInput # <<>> /\ WhitespaceOnly(pointAInput)
    /\ ~pointAParsed.ok /\ pointAParsed.error = "empty"

\* the numbers that occur in the text
FlatNumbers(text) == mapNumber(MatchAll(trim(text), flatNumberRe, 1))

FlatReason(r, values) ==
    IF Len(values) < 2
    THEN ~r.ok /\ r.error = "invalid_format"
    ELSE IF \E i \in 1..3 : i <= Len(values) /\ ~isFinite(values[i])
    THEN ~r.ok /\ r.error = "invalid_number"
    ELSE r.ok

C6_PointInRange ==
    (mode = "globe" /\ pointAParsed.ok) =>
        /\ Within(pointAParsed.value.lat, -90, 90)
        /\ Within(pointAParsed.value.lon, -180, 180)

\* a point that the URL recognizer produced
C6_Witness ==
    /\ mode = "globe"
    /\ pointAParsed.ok
    /\ pointAParsed.ran = <<"url">>

\* C7: when the deciding recognizer extracts a latitude outside [-90, 90] or
\* a longitude outside [-180, 180], as written, the result is the
\* out_of_range failure; the latitude of a success is the latitude as
\* written.
C7_OutOfRangeRejected ==
    (mode = "globe" /\ pointAParsed.pair.some) =>
        /\ (\/ ~Within(pointAParsed.pair.lat, -90, 90)
            \/ ~Within(pointAParsed.pair.lon, -180, 180))
           => (~pointAParsed.ok /\ pointAParsed.error = "out_of_range")
        /\ pointAParsed.ok => pointAParsed.value.lat = pointAParsed.pair.lat

\* a latitude of more than 90 degrees, rejected
C7_Witness ==
    /\ mode = "globe"
    /\ pointAParsed.pair.some
    /\ pointAParsed.pair.lat.k = "fin" /\ pointAParsed.pair.lat.v > 90 * Scale
    /\ Within(pointAParsed.pair.lon, -180, 180)
    /\ ~pointAParsed.ok /\ pointAParsed.error = "out_of_range"

\* C8 (amended): with a valid latitude, a longitude outside [-180, 180] as
\* written fails the parse with out_of_range; a longitude inside the range is
\* stored as written, except that 180 is stored as -180.
C8_LongitudeStored ==
    (/\ mode = "globe"
     /\ pointAParsed.pair.some
     /\ Within(pointAParsed.pair.lat, -90, 90))
    => IF Within(pointAParsed.pair.lon, -180, 180)
       THEN /\ pointAParsed.ok
            /\ pointAParsed.value.lon =
                   IF pointAParsed.pair.lon = Fin(180 * Scale)
                   THEN Fin(-180 * Scale) ELSE pointAParsed.pair.lon
       ELSE ~pointAParsed.ok /\ pointAParsed.error = "out_of_range"

\* a finite longitude beyond 180 degrees with a valid latitude, rejected
C8_Witness ==
    /\ mode = "globe"
    /\ pointAParsed.pair.some
    /\ Within(pointAParsed.pair.lat, -90, 90)
    /\ pointAParsed.pair.lon.k = "fin" /\ pointAParsed.pair.lon.v > 180 * Scale
    /\ ~pointAParsed.ok

\* C8 as stated: with a valid latitude, a finite longitude outside
\* [-180, 180] as written is stored wrapped into the range.
C8_AsStated ==
    (/\ mode = "globe"
     /\ pointAParsed.pair.some
     /\ Within(pointAParsed.pair.lat, -90, 90)
     /\ pointAParsed.pair.lon.k = "fin"
     /\ ~Within(pointAParsed.pair.lon, -180, 180))
    => /\ pointAParsed.ok
       /\ pointAParsed.value.lon =
              Fin(((pointAParsed.pair.lon.v + 180 * Scale) % (360 * Scale)) - 180 * Scale)

\* C9 (amended): for a finite lon, normalizeLon(lon) = lon when
\* -180 <= lon < 180, and normalizeLon(180) = -180; for lon >= -540 the result
\* lies in [-180, 180) and normalizing it again leaves it unchanged; for
\* lon < -540 the result lies in (-540, -180] and, unless it is -180,
\* normalizing it again adds 360.  An infinite lon is returned as it is.
C9_NormalizeLon ==
    /\ lonArg.k = "inf" => lonOut = lonArg
    /\ lonArg.k = "fin" =>
        /\ (-180 * Scale <= lonArg.v /\ lonArg.v < 180 * Scale) => lonOut = lonArg
        /\ lonArg.v = 180 * Scale => lonOut = Fin(-180 * Scale)
        /\ lonArg.v >= -540 * Scale =>
              /\ lonOut.k = "fin"
              /\ -180 * Scale <= lonOut.v /\ lonOut.v < 180 * Scale
              /\ normalizeLon(lonOut) = lonOut
        /\ lonArg.v < -540 * Scale =>
              /\ lonOut.k = "fin"
              /\ -540 * Scale < lonOut.v /\ lonOut.v <= -180 * Scale
              /\ lonOut.v < -180 * Scale => normalizeLon(lonOut) = Fin(lonOut.v + 360 * Scale)

\* normalizeLon(180) has returned -180
C9_Witness ==
    /\ lonArg = Fin(180 * Scale)
    /\ lonOut = Fin(-180 * Scale)

\* C9 as stated: normalizeLon(lon) = lon for every lon in [-180, 180], both
\* ends included, and normalizing a result again leaves it unchanged.
C9_AsStated ==
    lonArg.k = "fin" =>
        /\ Within(lonArg, -180, 180) => lonOut = lonArg
        /\ normalizeLon(lonOut) = lonOut

\* the text given the default scheme (spec.md 4.1)
WithDefaultScheme(text) == <<"h", "t", "t", "p", "s", ":", "/", "/">> \o text

\* the pair of the q or ll parameter of a parsed URL
QueryPairOf(url) ==
    IF url.ok THEN queryPair(url, searchParamsGet(url, <<"q">>)) ELSE NoPair

SchemeLessMatched(input, r, sp) ==
    (/\ ~UrlParse(input).ok
     /\ ~Search(input, atPatternRe).ok
     /\ sp.some)
    => (r.ran = <<"url">> /\ r.pair = sp)

\* C10 as stated: a text without a scheme, without an @lat,lon fragment,
\* that is a link once https:// is put before it and whose q or ll parameter
\* holds a pair, is matched by the URL recognizer with that pair.
C10_AsStated ==
    GlobeInput =>
        SchemeLessMatched(trim(pointAInput), pointAParsed,
                          QueryPairOf(UrlParse(WithDefaultScheme(trim(pointAInput)))))

(***************************************************************************)
(* Properties of parseDmsPair                                              *)
(***************************************************************************)
\* the angle the writer means: the hemisphere letter gives the sign, the
\* minus sign before the degrees gives nothing (in units of 1/Scale degree)
Meant(w) ==
    (IF w.hemi \in {"S", "s", "W", "w"} THEN -1 ELSE 1)
    * (w.deg * Scale + (IF w.min >= 0 THEN w.min * (Scale \div 60) ELSE 0)
       + (IF w.sec >= 0 THEN w.sec * (Scale \div 36000) ELSE 0))

LatOf(w) == IF w[1].hemi \in NS THEN w[1] ELSE w[2]

LonOf(w) == IF w[1].hemi \in EW THEN w[1] ELSE w[2]

\* C11: the DMS recognizer decodes each angle as deg + min/60 + sec/3600
\* with the sign of its hemisphere letter (negative for S and W, positive
\* for N and E), whether or not a minus sign is written before the degrees.
C11_SignByHemisphere ==
    ret # <<>> =>
        /\ ret.some
        /\ ret.lat = Fin(Meant(LatOf(args)))
        /\ ret.lon = Fin(Meant(LonOf(args)))

\* a southern latitude written without a minus sign and an eastern longitude
\* written with one have been decoded
C11_Witness ==
    /\ ret # <<>>
    /\ ret.some
    /\ LatOf(args).hemi = "S" /\ ~LatOf(args).minus /\ LatOf(args).deg > 0
    /\ LonOf(args).hemi = "E" /\ LonOf(args).minus
    /\ ret.lat.v < 0 /\ ret.lon.v > 0

(***************************************************************************)
(* Properties of the notations of one point                                *)
(***************************************************************************)
\* two finite numbers no further apart than tol units of 1/Scale degree
Near(x, y, tol) == x.k = "fin" /\ y.k = "fin" /\ Abs(x.v - y.v) <= tol

\* half a second of arc
HalfSecond == Scale \div 7200

\* C12 (as amended): the five notations of the acceptance table all parse;
\* the four that write the point in decimal degrees give the same point,
\* and the DMS notation, whose seconds are written whole, gives a point
\* within half a second of arc (1.4e-4 degree) of it in latitude and in
\* longitude.
C12_TableAgrees ==
    ret # <<>> =>
        /\ ret.a.ok /\ ret.b.ok
        /\ Near(ret.a.value.lat, ret.b.value.lat, HalfSecond)
        /\ Near(ret.a.value.lon, ret.b.value.lon, HalfSecond)
        /\ (TableDms \in {args.a, args.b}) \/ ret.a.value = ret.b.value

\* the DMS notation and a URL with a q parameter have been parsed
C12_Witness ==
    /\ ret # <<>>
    /\ args.a = TableDms /\ args.b \in TableQueryUrls
    /\ ret.a.ok /\ ret.b.ok
    /\ ret.a.ran = <<"url", "dms">> /\ ret.b.ran = <<"url">>
    /\ ret.a.value # ret.b.value

\* C12 as stated: the five notations parse and agree within 1e-6 degree
C12_AsStated ==
    ret # <<>> =>
        /\ ret.a.ok /\ ret.b.ok
        /\ ret.a.value.lat.k = "fin" /\ ret.b.value.lat.k = "fin"
        /\ Abs(ret.a.value.lat.v - ret.b.value.lat.v) * 1000000 <= Scale
        /\ Abs(ret.a.value.lon.v - ret.b.value.lon.v) * 1000000 <= Scale

(***************************************************************************)
(* Properties of the distance engine                                       *)
(***************************************************************************)
\* the identifiers of the family a function of the engine is declared for
Family(fn) ==
    IF fn = "calculateGlobeDistanceMeters"
    THEN {globeAlgorithms[i] : i \in DOMAIN globeAlgorithms}
    ELSE {flatAlgorithms[i] : i \in DOMAIN flatAlgorithms}

Called == ret # <<>>

\* C13 as stated: a call of calculateGlobeDistanceMeters or
\* calculateFlatDistanceUnits with an identifier of the other family fails
\* loudly: it throws, and returns no distance computed by another algorithm.
C13_AsStated ==
    (Called /\ args.algorithm \notin Family(args.fn)) => ret.ab.thrown


\* C15: the distance from a point to itself is 0 under each algorithm of its
\* family: Haversine, Vincenty and Equirectangular for a geographic point,
\* Euclidean2D, Euclidean3D and Manhattan2D for a planar point.
C15_DistanceToSelf ==
    (Called /\ args.algorithm \in Family(args.fn) /\ args.a = args.b)
        => ret.ab.value = 0

C15_Witness ==
    /\ Called
    /\ args.algorithm = "haversine"
    /\ args.fn = "calculateGlobeDistanceMeters"
    /\ args.a = args.b
    /\ args.a.lat # 0
    /\ ret.ab.value = 0

\* the error of the arithmetic on a distance: 32 units of the resolution of
\* angles (the square root of a small quantity keeps half its digits), as a
\* distance on the sphere (204 metres)
Resolution == Metres(32, EARTH_RADIUS_M)

Symmetric ==
    IF args.fn = "calculateFlatDistanceUnits"
    THEN ret.ab.value = ret.ba.value
    ELSE Abs(ret.ab.value - ret.ba.value) <= Resolution

\* C16 as stated: for every algorithm and all points a and b the distance from
\* a to b equals the distance from b to a, exactly for the planar algorithms
\* and within the tolerance of the arithmetic for the geographic ones, the
\* pairs for which Vincenty falls back to Haversine included.
C16_AsStated ==
    (Called /\ args.algorithm \in Family(args.fn)) => Symmetric

(***************************************************************************)
(* Properties of the loop of vincentyDistanceMeters                        *)
(***************************************************************************)
\* successive values of lambda came within 1e-12 during the 200 iterations
ConvergedWithinCap == args.convergesAt <= IterationCap

\* C14 as stated: the call returns the Haversine distance exactly when the
\* 200 iterations pass without successive values of lambda coming within
\* 1e-12; a pair that converges at any iteration up to and including the
\* 200th is given the ellipsoidal distance.
C14_AsStated ==
    (frame # <<>> /\ frame.pc = "done" /\ ret # "zero")
        => (ret = "haversine" <=> ~ConvergedWithinCap)

(***************************************************************************)
(* Properties of toMeters and fromMeters                                   *)
(***************************************************************************)
\* equal within the rounding of a multiplication and a division: a relative
\* difference of at most four units of roundoff, 2^(2 - MantissaBits)
WithinRounding(x, n) == x.k = "fin" /\ Abs(x.v - n) * Pow2(MantissaBits - 2) <= Abs(n)

\* finite, and neither zero nor subnormal
Normal(x) == x.k = "fin" /\ Abs(x.v) >= MinNormal

\* C17: for every unit u and every finite v that is zero or for which
\* toMeters(v, u) is finite and neither zero nor subnormal,
\* fromMeters(toMeters(v, u), u) equals v within the rounding of the two
\* operations; for the units m and blocks it is v for every finite v.
C17_RoundTrip ==
    (Called /\ args.fn = "toMeters")
        => /\ (args.value.v = 0 \/ Normal(ret.meters))
                => WithinRounding(ret.back, args.value.v)
           /\ args.unit \in {"m", "blocks"} => ret.back = args.value

\* a value that comes back changed in its last place
C17_Witness ==
    /\ Called
    /\ args.fn = "toMeters"
    /\ args.unit = "mi"
    /\ Normal(ret.meters)
    /\ ret.back # args.value
    /\ WithinRounding(ret.back, args.value.v)

\* C17 as stated: for every unit u and every finite v,
\* fromMeters(toMeters(v, u), u) equals v within the tolerance.
C17_AsStated ==
    (Called /\ args.fn = "toMeters") => WithinRounding(ret.back, args.value.v)

(***************************************************************************)
(* Properties of buildGeodesicCircle                                       *)
(***************************************************************************)
\* the difference of two longitudes, the shorter way round
LonGap(x, y) == IF Abs(x - y) > 180 * Scale THEN 360 * Scale - Abs(x - y) ELSE Abs(x - y)

\* the same point within the rounding of the conversion to degrees
Coincide(p, q) == Abs(p.lat - q.lat) <= 2 /\ LonGap(p.lon, q.lon) <= 2

\* C18 as stated: for any valid center and any steps >= 1 the result has
\* steps + 1 points, and its first point (bearing 0) and its last point
\* (bearing 360) coincide, so that the ring is closed.
C18_AsStated ==
    (Called /\ args.fn = "buildGeodesicCircle")
        => Len(ret) = args.steps + 1 /\ Coincide(ret[1], ret[args.steps + 1])

(***************************************************************************)
(* Properties of the bearings and the midpoints                            *)
(***************************************************************************)
\* C19: initialBearingDegrees and planarBearingDegrees return a value in
\* the half-open range [0, 360) for every pair of points: never a negative
\* value and never 360, the cases where the angle of atan2 is exactly -180,
\* 0 or 180 degrees included.
C19_BearingRange ==
    (Called /\ args.fn \in {"initialBearingDegrees", "planarBearingDegrees"})
        => 0 <= ret.value /\ ret.value < 360 * Scale

\* initialBearingDegrees has returned 0 for a point b north and west of a:
\* the angle is below zero and its sum with 360 has been rounded to 360
C19_Witness ==
    /\ Called
    /\ args.fn = "initialBearingDegrees"
    /\ args.b.lat > args.a.lat
    /\ args.b.lon < args.a.lon
    /\ args.b.lon > args.a.lon - Scale
    /\ ret.value = 0

\* the angle, in degrees, below which the rounding of the fixed-point
\* arithmetic puts the midpoint of two points nearly opposite each other
AngleResolution == toDeg(32)

\* C20 (amended): flatMidpoint(a, b) equals flatMidpoint(b, a) component by
\* component; geographicMidpoint(a, b) and geographicMidpoint(b, a) have the
\* same latitude and the same longitude up to rounding and up to a full
\* turn, the longitude of a midpoint on the meridian of 180 being -180 in
\* one order and just below 180 in the other.
C20_MidpointOrder ==
    /\ (Called /\ args.fn = "flatMidpoint") => ret.ab = ret.ba
    /\ (Called /\ args.fn = "geographicMidpoint")
        => /\ Abs(ret.ab.lat - ret.ba.lat) <= AngleResolution
           /\ LonGap(ret.ab.lon, ret.ba.lon) <= AngleResolution

\* geographicMidpoint has returned the two ends of the range of longitudes
\* for the two orders of a pair
C20_Witness ==
    /\ Called
    /\ args.fn = "geographicMidpoint"
    /\ ret.ab.lon = -180 * Scale
    /\ ret.ba.lon > 179 * Scale

\* C20 as stated: for all points a and b, flatMidpoint(a, b) equals
\* flatMidpoint(b, a) component by component, and geographicMidpoint(a, b)
\* equals geographicMidpoint(b, a) in latitude and in normalized longitude.
C20_AsStated ==
    /\ (Called /\ args.fn = "flatMidpoint") => ret.ab = ret.ba
    /\ (Called /\ args.fn = "geographicMidpoint")
        => /\ Abs(ret.ab.lat - ret.ba.lat) <= AngleResolution
           /\ Abs(ret.ab.lon - ret.ba.lon) <= AngleResolution

(***************************************************************************)
(* Properties of detectCoordinateProvider                                  *)
(***************************************************************************)
\* the text made into a URL, as on lines 49-52
UrlStringOf(trimmed) ==
    IF TestAtStart(trimmed, httpRe) THEN trimmed ELSE HttpsPrefix \o trimmed

\* entry n of the table matches the URL or its hostname
EntryMatches(urlString, n) ==
    /\ UrlParse(urlString).ok
    /\ \/ Test(UrlText(urlString).href, PROVIDER_PATTERNS[n].pattern)
       \/ Test(UrlText(urlString).hostname, PROVIDER_PATTERNS[n].pattern)

\* the precedence after the geo: test, for a text made into urlString
TablePrecedence(urlString, id) ==
    /\ \A n \in DOMAIN PROVIDER_PATTERNS :
          (EntryMatches(urlString, n) /\ \A k \in 1..(n - 1) : ~EntryMatches(urlString, k))
              => id = PROVIDER_PATTERNS[n].id
    /\ id = "copied_link"
          => /\ \A n \in DOMAIN PROVIDER_PATTERNS : ~EntryMatches(urlString, n)
             /\ UrlParse(urlString).ok
             /\ CopiedLink(UrlParse(urlString), UrlText(urlString).href)
    /\ ~UrlParse(urlString).ok => id = "null"

\* C21 (amended): a text that starts with geo:, optional white space, an
\* optional minus sign and a digit yields geo_uri before anything else;
\* otherwise the result is the id of the first entry of the ordered provider
\* table whose pattern matches the URL or its hostname; copied_link is
\* returned only when no table entry matches and the URL has an @lat,lon
\* fragment or a q or ll parameter; and a URL-parse failure yields no
\* provider rather than an error.
C21_Precedence ==
    (Called /\ args.fn = "detectCoordinateProvider")
        => /\ ret.id \in {"null", "geo_uri", "copied_link"}
                         \cup {PROVIDER_PATTERNS[n].id : n \in DOMAIN PROVIDER_PATTERNS}
           /\ IF TestAtStart(trim(args.raw), geoUriRe)
              THEN ret.id = "geo_uri"
              ELSE TablePrecedence(UrlStringOf(trim(args.raw)), ret.id)

\* a URL that two entries of the table match has been given the id of the
\* earlier entry
C21_Witness ==
    /\ Called
    /\ args.fn = "detectCoordinateProvider"
    /\ \E n \in DOMAIN PROVIDER_PATTERNS :
          /\ EntryMatches(UrlStringOf(trim(args.raw)), n)
          /\ \E k \in (n + 1)..Len(PROVIDER_PATTERNS) :
                EntryMatches(UrlStringOf(trim(args.raw)), k)
          /\ ret.id = PROVIDER_PATTERNS[n].id

\* C21 as stated: a geo: prefix yields geo_uri before anything else;
\* otherwise the result is the id of the first entry of the ordered provider
\* table whose pattern matches the URL or its hostname; copied_link is
\* returned only when no table entry matches and the URL has an @lat,lon
\* fragment or a q or ll parameter; and a URL-parse failure yields no
\* provider rather than an error.
C21_AsStated ==
    (Called /\ args.fn = "detectCoordinateProvider")
        => IF TestAtStart(trim(args.raw), LitI(<<"g", "e", "o", ":">>))
           THEN ret.id = "geo_uri"
           ELSE TablePrecedence(UrlStringOf(trim(args.raw)), ret.id)

(***************************************************************************)
(* Properties of the loop of vincentyDistanceMeters on pairs of points     *)
(***************************************************************************)
\* the condition of the while loop holds when the loop is reached
EntersLoop(a, b) == VincentyLooping(VincentyStart(a, b))

\* C22 as stated: for every input pair, pairs with equal longitudes
\* (initial lambda = L = 0) included, at least one iteration of the loop
\* body runs before the ellipsoidal result is computed, so that the sigma
\* used in the returned distance is one produced by the iteration and not
\* the initial placeholder 0.
C22_AsStated ==
    (Called /\ args.fn = "calculateGlobeDistanceMeters" /\ args.algorithm = "vincenty")
        => EntersLoop(args.a, args.b) /\ EntersLoop(args.b, args.a)

\* C23: vincentyDistanceMeters terminates for every pair of points after at
\* most 200 executions of the loop body, and on every exit path (sinSigma =
\* 0, convergence, iteration cap) it returns a number to the caller:
\* non-convergence is never an error or an unbounded loop.
C23_Terminates ==
    <>(/\ frame # <<>>
       /\ frame.pc = "done"
       /\ frame.iteration <= IterationCap
       /\ ret \in {"zero", "ellipsoidal", "haversine"})

\* a call that never converges has returned after 200 executions of the body
C23_Witness ==
    /\ frame # <<>>
    /\ frame.pc = "done"
    /\ args.convergesAt > IterationCap
    /\ frame.iteration = IterationCap
    /\ ret = "haversine"

\* C24 as stated: in every render of the tool that computes distances, the
\* render that follows a switch of mode included, each selected algorithm is
\* passed to the function of the current mode with an identifier of that
\* mode's family, and the value of its row is computed by the algorithm the
\* row is labelled with.
C24_AsStated ==
    \A i \in DOMAIN ret.distances :
        /\ ret.distances[i].algorithm \in Family(ret.distances[i].fn)
        /\ ret.distances[i].by = ret.distances[i].algorithm

\* the value of a parameter as searchParams decodes it
Decoded(p) == [i \in DOMAIN p.value |-> IF p.value[i] = "+" THEN " " ELSE p.value[i]]

\* the parameter holds a lat,lon-shaped pair
HoldsPair(p) == p.some /\ Search(Decoded(p), decimalPairRe).ok

PairHeld(p) == NumberPair(Decoded(p), Search(Decoded(p), decimalPairRe))

\* C25 as stated: the URL recognizer matches an absolute URL whenever its q
\* parameter or its ll parameter holds a lat,lon-shaped pair; when q is
\* present but holds no pair (a place name, or nothing) and ll holds one, it
\* returns the pair of ll.
C25_AsStated ==
    (Called /\ UrlParse(args.raw).ok) =>
        /\ (HoldsPair(args.q) \/ HoldsPair(args.ll)) => ret.pair.some
        /\ (args.q.some /\ ~HoldsPair(args.q) /\ HoldsPair(args.ll))
               => ret.pair = PairHeld(args.ll)

\* C26 as stated: the list of selected algorithms is never empty, whatever
\* algos parameter the tool was opened with (unknown identifiers and repeated
\* identifiers included) and after any sequence of algorithm toggles and
\* switches of mode.
C26_AsStated == selectedAlgorithms # <<>>

\* C27 as stated: when the text pasted into the point A field is classified
\* as provider P, then once the paste event and the change event it causes
\* have both been handled, and until a later edit, the detected provider of
\* the field is P.
C27_AsStated ==
    (Called /\ ret.changes /\ ~frame.change /\ ret.provider # "null")
        => detectedProviderA = ret.provider

\* C28 as stated: once the map is ready, every zoom request (zoomToPoint, or
\* zoomFitBoth with both points present) is served exactly once and then
\* cleared through onZoomComplete, never cleared unserved and never served
\* twice; and the skip flag suppresses the fit to all points only in the run
\* of the effect that follows a served request, so that it is never left set
\* for a run caused by a change of points.
C28_AsStated ==
    /\ ret.point \notin {"dropped", "twice"}
    /\ ret.both \notin {"dropped", "twice"}
    /\ (frame.mapReady /\ ~frame.run) =>
           /\ args.zoomToPoint = "null"
           /\ (args.pointA /\ args.pointB) => ~args.zoomFitBoth
    /\ frame.skipNextFitBounds => (frame.run /\ frame.cause = "served")
    /\ ret.did = "skipped" => ret.after = "served"

\* the set of supported locales
SupportedLocales == {locales[i] : i \in DOMAIN locales}

\* the path starts with the segment of a supported locale
LocalePath(pathname) ==
    \E l \in SupportedLocales :
        /\ Len(pathname) > Len(l)
        /\ SubSeq(pathname, 1, Len(l) + 1) = <<"/">> \o l
        /\ Len(pathname) = Len(l) + 1 \/ pathname[Len(l) + 2] = "/"

\* C29: the locale proxy never redirects in a loop: a request whose path
\* starts with a supported locale segment is passed on unchanged, every
\* redirect targets a path that starts with a supported locale, and so a
\* request is redirected at most once, whatever its Accept-Language header.
C29_NoRedirectLoop ==
    /\ frame.redirects <= 1
    /\ (Called /\ LocalePath(args.pathname)) => ret = PassedOn
    /\ (Called /\ ret.kind = "redirect") => LocalePath(ret.pathname)

C29_Witness ==
    /\ Called
    /\ frame.redirects = 1
    /\ ret = PassedOn
    /\ args.header.some
    /\ startsWith(args.pathname, <<"/", "f", "r", "/">>)

\* the state a tool opened with a query string starts in
OpenedWith(searchParams) ==
    [mode |-> parseMode(searchParams.mode),
     projection |-> parseProjection(searchParams.projection),
     pointAInput |-> IF searchParams.a.some THEN searchParams.a.value ELSE DefaultPointA,
     selectedAlgorithms |->
         parseAlgorithmList(searchParams.algos, parseMode(searchParams.mode))]

\* C30 as stated: in every settled state of the tool (the mode effect has
\* run), a new tool opened with the share query starts with the same mode,
\* the same projection, the same point text and the same list of selected
\* algorithms in the same order.
C30_AsStated ==
    ~frame.modeEffect =>
        OpenedWith(searchParamsOf(ret.shareQuery))
            = [mode |-> mode, projection |-> projection, pointAInput |-> pointAInput,
               selectedAlgorithms |-> selectedAlgorithms]

=============================================================================
